---- MODULE Spec2Model ----
(***************************************************************************)
(* Quiz caching and generation core of the PDF-to-quiz application.        *)
(*                                                                         *)
(*   lib/quizCache.js            generateCacheKey, findCachedQuiz,         *)
(*                               saveQuizToCache                           *)
(*   models/Quiz.js              the quiz collection: unique cacheKey,     *)
(*                               incrementUsage                            *)
(*   lib/gemini.js               generateQuiz, generateWithRetry,          *)
(*                               parseQuizResponse                         *)
(*   pages/api/quiz/generate.js  the request handler                       *)
(*                                                                         *)
(* Strings are sequences of one-character strings, so that the template    *)
(* literal of generateCacheKey is a real concatenation.  A value that may  *)
(* be absent (undefined / null) is a sequence of length 0 or 1.            *)
(*                                                                         *)
(* Specifications:                                                         *)
(*   Spec     the handler under concurrent requests (every await of the    *)
(*            handler that touches the quiz collection is its own step)    *)
(*   SeqSpec  the same handler, requests handled one after another         *)
(*   GenSpec  one generateQuiz call, attempt by attempt                    *)
(*   KeySpec  generateCacheKey on pairs of validated argument tuples       *)
(***************************************************************************)
EXTENDS Integers, Sequences, FiniteSets, TLC

(***************************************************************************)
(* Bounds of the model.                                                    *)
(***************************************************************************)
\* number of request processes
MaxRequests == 3
\* largest number of questions a model response carries
MaxReturned == 2
\* requests handled one after another stop arriving at this total usage
MaxSeqUsage == 3

(***************************************************************************)
(* Strings.                                                                *)
(***************************************************************************)
DigitChars == <<"0", "1", "2", "3", "4", "5", "6", "7", "8", "9">>

HexChars == {"0", "1", "2", "3", "4", "5", "6", "7", "8", "9",
             "a", "b", "c", "d", "e", "f"}

RECURSIVE Dec(_)
\* decimal digits of a natural number
Dec(n) == IF n < 10 THEN <<DigitChars[n + 1]>>
          ELSE Dec(n \div 10) \o <<DigitChars[(n % 10) + 1]>>

\* `${n}` of a JavaScript integer
NumberToString(n) == IF n < 0 THEN <<"-">> \o Dec(0 - n) ELSE Dec(n)

Easy == <<"e", "a", "s", "y">>
Medium == <<"m", "e", "d", "i", "u", "m">>
Hard == <<"h", "a", "r", "d">>

\* lib/gemini.js:40 and generate.js:62
validDifficulties == {Easy, Medium, Hard}

\* x || d on an optional value: a falsy x gives d
OrDefault(opt, falsy, d) == IF opt = <<>> \/ opt[1] \in falsy THEN d ELSE opt[1]

(***************************************************************************)
(* lib/quizCache.js: generateCacheKey.                                     *)
(***************************************************************************)
\* A page number of a request body is a Number, or a String of digits.  The
\* fields start and end of a range hold the numeric values: what a comparison
\* with a number, arithmetic and the Number cast of mongoose see.  A range of
\* Strings also holds the strings themselves, in the field text.
IsStringRange(range) == "text" \in DOMAIN range

\* the code unit of a digit, up to a constant
DigitCode(c) == CHOOSE i \in 1..10 : DigitChars[i] = c

\* Number(s) of a string of digits
RECURSIVE ToNumber(_)
ToNumber(s) ==
    IF s = <<>> THEN 0
    ELSE 10 * ToNumber(SubSeq(s, 1, Len(s) - 1)) + (DigitCode(s[Len(s)]) - 1)

\* a > b of two strings of digits: by code units, a proper prefix being less
RECURSIVE StringGreater(_, _)
StringGreater(a, b) ==
    IF a = <<>> THEN FALSE
    ELSE IF b = <<>> THEN TRUE
    ELSE IF Head(a) # Head(b) THEN DigitCode(Head(a)) > DigitCode(Head(b))
    ELSE StringGreater(Tail(a), Tail(b))

\* `${range[field]}`
PageToString(range, field) ==
    IF IsStringRange(range) THEN range.text[field] ELSE NumberToString(range[field])

\* !range[field]: 0, or the empty string
PageFalsy(range, field) ==
    IF IsStringRange(range) THEN range.text[field] = <<>> ELSE range[field] = 0

KeyJoinNoSeparator(bookId, start, end, numberOfQuestions, difficulty) ==
    bookId \o start \o end \o NumberToString(numberOfQuestions) \o difficulty

\* `${bookId}-${start}-${end}-${numberOfQuestions}-${difficulty}`, start and
\* end as the template renders them
KeyJoin(bookId, start, end, numberOfQuestions, difficulty) ==
    bookId \o <<"-">> \o start \o <<"-">> \o end
           \o <<"-">> \o NumberToString(numberOfQuestions) \o <<"-">> \o difficulty

\* pageRange is <<>> (absent) or <<[start |-> s, end |-> e]>>
generateCacheKey(bookId, pageRange, numberOfQuestions, difficulty) ==
    LET start == IF pageRange = <<>> \/ PageFalsy(pageRange[1], "start")
                 THEN NumberToString(1)
                 ELSE PageToString(pageRange[1], "start")
        end == IF pageRange = <<>> \/ PageFalsy(pageRange[1], "end")
               THEN NumberToString(1)
               ELSE PageToString(pageRange[1], "end")
    IN KeyJoin(bookId, start, end, numberOfQuestions, difficulty)

(***************************************************************************)
(* JavaScript values of a parsed model response.                           *)
(***************************************************************************)
Undef == [t |-> "undefined"]
Null == [t |-> "null"]
Str(s) == [t |-> "string", v |-> s]
Num(n) == [t |-> "number", v |-> n]
Arr(a) == [t |-> "array", v |-> a]
\* an element of data.questions; a property the JSON text lacks reads as Undef
QuestionObj(q, o, c, e) ==
    [t |-> "object", question |-> q, options |-> o, correctAnswer |-> c,
     explanation |-> e]
\* the top-level object of a response
DataObj(qs) == [t |-> "object", questions |-> qs]

\* !x
Falsy(x) == \/ x.t \in {"undefined", "null"}
            \/ x.t = "string" /\ x.v = <<>>
            \/ x.t = "number" /\ x.v = 0

\* typeof x === 'string'
IsString(x) == x.t = "string"

\* Array.isArray(x)
IsArray(x) == x.t = "array"

(***************************************************************************)
(* The raw text of a model response, as tokens: a code fence ```, a word,  *)
(* a run of whitespace, or the text of one JSON value.                     *)
(***************************************************************************)
Fence == [k |-> "fence"]
Ws == [k |-> "ws"]
Word(w) == [k |-> "word", w |-> w]
Json(val) == [k |-> "json", val |-> val]

RECURSIVE DropLeadingWs(_)
DropLeadingWs(s) == IF s # <<>> /\ Head(s) = Ws THEN DropLeadingWs(Tail(s)) ELSE s

RECURSIVE DropTrailingWs(_)
DropTrailingWs(s) ==
    IF s # <<>> /\ s[Len(s)] = Ws THEN DropTrailingWs(SubSeq(s, 1, Len(s) - 1)) ELSE s

\* text.trim()
Trim(s) == DropTrailingWs(DropLeadingWs(s))

\* s.replace(/```\s*$/, ''): a fence followed only by whitespace up to the end
DropClosingFence(s) ==
    LET body == DropTrailingWs(s)
    IN IF body # <<>> /\ body[Len(body)] = Fence
       THEN SubSeq(body, 1, Len(body) - 1) ELSE s

\* lib/gemini.js:167-174
StripCodeFence(text) ==
    LET cleanedText == Trim(text)
    IN IF Len(cleanedText) >= 2 /\ cleanedText[1] = Fence /\ cleanedText[2] = Word("json")
       THEN DropClosingFence(DropLeadingWs(SubSeq(cleanedText, 3, Len(cleanedText))))
       ELSE IF cleanedText # <<>> /\ cleanedText[1] = Fence
       THEN DropClosingFence(DropLeadingWs(Tail(cleanedText)))
       ELSE cleanedText

\* JSON.parse: one JSON value, whitespace allowed around it; <<>> is a SyntaxError
JSONParse(s) ==
    LET t == Trim(s)
    IN IF Len(t) = 1 /\ t[1].k = "json" THEN <<t[1].val>> ELSE <<>>

(***************************************************************************)
(* lib/gemini.js: parseQuizResponse.  The result is [ok, questions,        *)
(* message]: the questions returned, or the message of the error thrown.   *)
(***************************************************************************)
ParseOk(questions) == [ok |-> TRUE, questions |-> questions, message |-> "none"]
ParseError(msg) == [ok |-> FALSE, questions |-> <<>>, message |-> msg]

QuestionErrorNoTypeCheck(q) ==
    IF q.t \in {"null", "undefined"} THEN <<"Invalid response format: TypeError">>
    ELSE IF q.t # "object" THEN <<"Invalid response format: missing or invalid question">>
    ELSE IF Falsy(q.question) \/ ~IsString(q.question)
    THEN <<"Invalid response format: missing or invalid question">>
    ELSE IF ~IsArray(q.options) \/ Len(q.options.v) # 4
    THEN <<"Invalid response format: must have exactly 4 options">>
    ELSE IF Falsy(q.correctAnswer)
    THEN <<"Invalid response format: missing or invalid correctAnswer">>
    ELSE IF Falsy(q.explanation)
    THEN <<"Invalid response format: missing or invalid explanation">>
    ELSE <<>>

\* the checks of one element (lines 186-199): <<>> or the error's message
QuestionError(q) ==
    IF q.t \in {"null", "undefined"} THEN <<"Invalid response format: TypeError">>
    ELSE IF q.t # "object" THEN <<"Invalid response format: missing or invalid question">>
    ELSE IF Falsy(q.question) \/ ~IsString(q.question)
    THEN <<"Invalid response format: missing or invalid question">>
    ELSE IF ~IsArray(q.options) \/ Len(q.options.v) # 4
    THEN <<"Invalid response format: must have exactly 4 options">>
    ELSE IF Falsy(q.correctAnswer) \/ ~IsString(q.correctAnswer)
    THEN <<"Invalid response format: missing or invalid correctAnswer">>
    ELSE IF Falsy(q.explanation) \/ ~IsString(q.explanation)
    THEN <<"Invalid response format: missing or invalid explanation">>
    ELSE <<>>

RECURSIVE FirstQuestionError(_)
\* forEach throws at the first element that fails a check
FirstQuestionError(qs) ==
    IF qs = <<>> THEN <<>>
    ELSE IF QuestionError(Head(qs)) # <<>> THEN QuestionError(Head(qs))
    ELSE FirstQuestionError(Tail(qs))

parseQuizResponse(text) ==
    LET parsed == JSONParse(StripCodeFence(text))
    IN IF parsed = <<>> THEN ParseError("Invalid response format: SyntaxError")
       ELSE LET data == parsed[1]
            IN IF data.t \in {"null", "undefined"}
               THEN ParseError("Invalid response format: TypeError")
               ELSE IF data.t # "object" \/ Falsy(data.questions) \/ ~IsArray(data.questions)
               THEN ParseError("Invalid response format: Invalid response structure: missing questions array")
               ELSE IF FirstQuestionError(data.questions.v) # <<>>
               THEN ParseError(FirstQuestionError(data.questions.v)[1])
               ELSE ParseOk(data.questions.v)

(***************************************************************************)
(* Books (read-only to the quiz core) and the content helpers of           *)
(* pages/api/quiz/generate.js.                                             *)
(***************************************************************************)
\* length of an ObjectId's hex string in the model (24 in MongoDB)
ObjectIdLen == 2

HexId(c) == [i \in 1..ObjectIdLen |-> c]

\* mongoose.Types.ObjectId.isValid on a string
ObjectIdIsValid(s) == Len(s) = ObjectIdLen /\ \A i \in 1..Len(s) : s[i] \in HexChars

Page(n, text) == [pageNumber |-> n, text |-> text]

\* two pages of text, stored out of page order
BookA == [_id |-> HexId("a"), title |-> <<"A">>, totalPages |-> 2,
          pages |-> <<Page(2, <<"y", "o">>), Page(1, <<"h", "i">>)>>, pdfText |-> <<>>]

\* one blank page
BookB == [_id |-> HexId("b"), title |-> <<"B">>, totalPages |-> 1,
          pages |-> <<Page(1, <<" ">>)>>, pdfText |-> <<>>]

Books == {BookA, BookB}

NoBook == [_id |-> <<>>, title |-> <<>>, totalPages |-> 0, pages |-> <<>>,
           pdfText |-> <<>>]

\* Book.findById: the book, or NoBook for null
FindBookById(id) == IF \E b \in Books : b._id = id
                    THEN CHOOSE b \in Books : b._id = id ELSE NoBook

WhitespaceChars == {" ", "\n", "\t"}

\* text.length === 0, the trim left out
IsEmptyUntrimmed(text) == text = <<>>

\* text.trim().length === 0
IsBlank(text) == \A i \in 1..Len(text) : text[i] \in WhitespaceChars

RECURSIVE Join(_, _)
\* texts.join(sep)
Join(texts, sep) ==
    IF texts = <<>> THEN <<>>
    ELSE IF Len(texts) = 1 THEN texts[1]
    ELSE texts[1] \o sep \o Join(Tail(texts), sep)

RECURSIVE InsertByPageNumber(_, _)
InsertByPageNumber(page, sorted) ==
    IF sorted = <<>> THEN <<page>>
    ELSE IF page.pageNumber < Head(sorted).pageNumber THEN <<page>> \o sorted
    ELSE <<Head(sorted)>> \o InsertByPageNumber(page, Tail(sorted))

\* selectedPages left in the stored order
Unsorted(pages) == pages

RECURSIVE SortByPageNumber(_)
\* selectedPages.sort((a, b) => a.pageNumber - b.pageNumber): stable
SortByPageNumber(pages) ==
    IF pages = <<>> THEN <<>>
    ELSE InsertByPageNumber(pages[Len(pages)],
                            SortByPageNumber(SubSeq(pages, 1, Len(pages) - 1)))

PageTexts(pages) == [i \in 1..Len(pages) |-> pages[i].text]

BlankLine == <<"\n", "\n">>

Min(a, b) == IF a < b THEN a ELSE b

\* s.substring(from, to) taken with the character at index to included
SubstringInclusive(s, from, to) == SubSeq(s, from + 1, Min(to + 1, Len(s)))

\* s.substring(from, to) for 0 <= from
Substring(s, from, to) == SubSeq(s, from + 1, Min(to, Len(s)))

\* Math.ceil(a / b) for b > 0
CeilDiv(a, b) == (a + b - 1) \div b

\* [ok, text]: ok is FALSE when the function throws 'Failed to extract ...'
extractTextFromPages(book, startPage, endPage) ==
    IF book.pages # <<>>
    THEN LET InRange(page) == page.pageNumber >= startPage /\ page.pageNumber <= endPage
             selectedPages == SelectSeq(book.pages, InRange)
         IN [ok |-> TRUE, text |-> Join(PageTexts(SortByPageNumber(selectedPages)), BlankLine)]
    ELSE IF book.pdfText # <<>> /\ book.totalPages > 0
    THEN LET charsPerPage == CeilDiv(Len(book.pdfText), book.totalPages)
         IN [ok |-> TRUE,
             text |-> Substring(book.pdfText, (startPage - 1) * charsPerPage,
                                endPage * charsPerPage)]
    ELSE IF book.pdfText # <<>>
    \* totalPages = 0: charsPerPage is Infinity, (startPage - 1) * Infinity is NaN or Infinity
    THEN [ok |-> TRUE, text |-> IF startPage = 1 THEN book.pdfText ELSE <<>>]
    ELSE [ok |-> FALSE, text |-> <<>>]

RECURSIVE LastIndexOf(_, _)
\* s.lastIndexOf(c) as a 0-based index, -1 when absent
LastIndexOf(s, c) ==
    IF s = <<>> THEN 0 - 1
    ELSE IF s[Len(s)] = c THEN Len(s) - 1
    ELSE LastIndexOf(SubSeq(s, 1, Len(s) - 1), c)

truncateText(text, maxChars) ==
    IF Len(text) <= maxChars THEN [text |-> text, wasTruncated |-> FALSE]
    ELSE LET truncated == Substring(text, 0, maxChars)
             lastSpace == LastIndexOf(truncated, " ")
         IN [text |-> IF lastSpace > 0 THEN Substring(truncated, 0, lastSpace)
                      ELSE truncated,
             wasTruncated |-> TRUE]

MAX_TOKENS == 15000
CHARS_PER_TOKEN == 4
MAX_CHARS == MAX_TOKENS * CHARS_PER_TOKEN

(***************************************************************************)
(* Requests.  A body is [method, bookId, pageRange, numberOfQuestions,     *)
(* difficulty]; an absent property is <<>>.                                *)
(***************************************************************************)
Reqs == 1..MaxRequests

Range(s, e) == <<[start |-> s, end |-> e]>>

\* a pageRange whose start and end are the strings a and b
StringRange(a, b) ==
    <<[start |-> ToNumber(a), end |-> ToNumber(b), text |-> [start |-> a, end |-> b]]>>

\* line 87: pageRange.start > pageRange.end, of two numbers or two strings
StartAfterEnd(range) ==
    IF IsStringRange(range) THEN StringGreater(range.text.start, range.text.end)
    ELSE range.start > range.end

Body(m, b, p, n, d) ==
    [method |-> m, bookId |-> b, pageRange |-> p, numberOfQuestions |-> n,
     difficulty |-> d]

NoBody == Body("none", <<>>, <<>>, <<>>, <<>>)

\* requests for the whole of BookA, its range absent or explicit: they race for
\* one cache entry
RaceBodies ==
    {Body("POST", <<BookA._id>>, p, <<1>>, <<Medium>>) : p \in {<<>>, Range(1, 2)}}

\* every shape of request, valid or not
Bodies ==
    {Body("POST", <<BookA._id>>, p, <<n>>, <<Medium>>) :
        p \in {<<>>, Range(1, 2)}, n \in 1..2}
    \cup {Body("POST", b, <<>>, <<1>>, <<Easy>>) :
            b \in {<<>>, <<<<>>>>, <<HexId("z")>>, <<<<"a">>>>, <<HexId("c")>>, <<BookB._id>>}}
    \cup {Body("POST", <<BookA._id>>, <<>>, n, <<Hard>>) :
            n \in {<<>>, <<0>>, <<0 - 1>>, <<20>>, <<21>>}}
    \cup {Body("POST", <<BookA._id>>, Range(1, 1), <<1>>, d) :
            d \in {<<>>, <<<<>>>>, <<<<"x">>>>}}
    \cup {Body("POST", <<BookA._id>>, p, <<1>>, <<Medium>>) :
            p \in {Range(1, 1), Range(2, 2), Range(2, 1), Range(0, 1), Range(1, 0),
                   Range(0 - 1, 1), Range(1, 3), Range(3, 3)}}
    \cup {Body("POST", <<BookB._id>>, Range(1, 1), <<1>>, <<Medium>>),
          Body("GET", <<BookA._id>>, <<>>, <<1>>, <<Medium>>)}

DefaultQuestions == 5
MinQuestions == 1
MaxQuestions == 20

(***************************************************************************)
(* Responses.                                                              *)
(***************************************************************************)
NoResponse == [status |-> 0, success |-> FALSE, fromCache |-> FALSE, quizId |-> 0,
               usageCount |-> 0, questions |-> <<>>, error |-> "none"]

ErrorResponse(status, error) ==
    [NoResponse EXCEPT !.status = status, !.error = error]

\* a quiz response that always says fromCache: true
QuizResponseAlwaysCached(quiz, fromCache, usageCount) ==
    [status |-> 200, success |-> TRUE, fromCache |-> TRUE, quizId |-> quiz.id,
     usageCount |-> usageCount, questions |-> quiz.questions, error |-> "none"]

\* lines 128-145 and 238-256
QuizResponse(quiz, fromCache, usageCount) ==
    [status |-> 200, success |-> TRUE, fromCache |-> fromCache, quizId |-> quiz.id,
     usageCount |-> usageCount, questions |-> quiz.questions, error |-> "none"]

\* lines 25-93: the response that rejects the body, or <<>>
Boundary(body) ==
    LET numQuestions == OrDefault(body.numberOfQuestions, {0}, DefaultQuestions)
        quizDifficulty == OrDefault(body.difficulty, {<<>>}, Medium)
        pageRange == body.pageRange
    IN IF body.method # "POST" THEN <<ErrorResponse(405, "Method not allowed. Use POST.")>>
       ELSE IF body.bookId = <<>> \/ body.bookId[1] = <<>>
       THEN <<ErrorResponse(400, "bookId is required")>>
       ELSE IF ~ObjectIdIsValid(body.bookId[1])
       THEN <<ErrorResponse(400, "Invalid bookId format")>>
       ELSE IF numQuestions < MinQuestions \/ numQuestions > MaxQuestions
       THEN <<ErrorResponse(400, "numberOfQuestions must be between 1 and 20")>>
       ELSE IF quizDifficulty \notin validDifficulties
       THEN <<ErrorResponse(400, "difficulty must be easy, medium, or hard")>>
       ELSE IF pageRange # <<>> /\ (\/ PageFalsy(pageRange[1], "start")
                                    \/ PageFalsy(pageRange[1], "end"))
       THEN <<ErrorResponse(400, "pageRange must include start and end")>>
       ELSE IF pageRange # <<>> /\ (pageRange[1].start < 1 \/ pageRange[1].end < 1)
       THEN <<ErrorResponse(400, "Page numbers must be greater than 0")>>
       ELSE IF pageRange # <<>> /\ StartAfterEnd(pageRange[1])
       THEN <<ErrorResponse(400, "start page must be less than or equal to end page")>>
       ELSE <<>>

\* no range is ever found to exceed the book
RangeNeverExceeds(book, pageRange) == FALSE

\* line 156: pageRange.end > book.totalPages
RangeExceeds(book, pageRange) == pageRange[1].end > book.totalPages

\* lines 151-186: the text selected on the miss path, [resp, text]
SelectContent(book, pageRange) ==
    IF pageRange # <<>> /\ RangeExceeds(book, pageRange)
    THEN [resp |-> <<ErrorResponse(400, "Page range exceeds book's total pages")>>,
          text |-> <<>>]
    ELSE LET extracted == IF pageRange # <<>>
                          THEN extractTextFromPages(book, pageRange[1].start, pageRange[1].end)
                          ELSE [ok |-> TRUE,
                                text |-> IF book.pages # <<>>
                                         THEN Join(PageTexts(book.pages), BlankLine)
                                         ELSE book.pdfText]
         IN IF ~extracted.ok
            THEN [resp |-> <<ErrorResponse(400, "Failed to extract text from specified pages.")>>,
                  text |-> <<>>]
            ELSE IF IsBlank(extracted.text)
            THEN [resp |-> <<ErrorResponse(400, "No text content available for quiz generation")>>,
                  text |-> <<>>]
            ELSE [resp |-> <<>>, text |-> extracted.text]

(***************************************************************************)
(* The quiz collection (models/Quiz.js) and the handler's state.           *)
(***************************************************************************)
VARIABLES
    quizzes,    \* the quiz collection: a set of documents
    pc,         \* per request: the await the handler is suspended at
    req,        \* per request: the body received
    loc,        \* per request: the handler's local variables
    resp        \* per request: the response sent

VARIABLES
    gpc,        \* where generateQuiz is: idle, call, wait, returned, threw
    modelIdx,   \* index into MODEL_FALLBACK_CHAIN of the model in use
    attempt,    \* the loop variable of line 116
    calls,      \* the generateContent calls made: <<modelIdx, attempt>> each
    waits,      \* the backoff waits started, in ms
    lastError,  \* line 106: message of the last error caught, "null" at first
    lastText,   \* <<text>> of the last call that returned, <<>> if it threw
    genOutcome  \* what generateQuiz returned or threw


VARIABLES
    kpc,        \* idle, args (arguments drawn), done (keys computed)
    argsA,      \* the first argument tuple
    argsB,      \* the second argument tuple
    keyA,       \* generateCacheKey of argsA
    keyB        \* generateCacheKey of argsB

VARIABLES
    tpc,        \* args (arguments drawn), done (truncateText returned), idle
    targs,      \* [text, maxChars]: the arguments of truncateText
    tres        \* [text, wasTruncated]: what truncateText returned

VARIABLES
    epc,        \* args (arguments drawn), done (extractTextFromPages returned), idle
    eargs,      \* [book, startPage, endPage]: the arguments of extractTextFromPages
    eres        \* [ok, text] returned, and pages: book.pages after the call

VARIABLES
    stats       \* <<[bookId, result]>>: the last getCacheStats call, <<>> before it

VARIABLES
    cached,     \* lib/mongodb.js:35-40: [conn, promise], promise 0 for null
    promises,   \* the promises mongoose.connect returned: [state, reactions] each
    cpc,        \* per caller of connectDB: idle, awaiting, returned, threw
    jobs        \* the microtask queue: the continuations of connectDB to run

handlerVars == <<quizzes, pc, req, loc, resp>>
genVars == <<gpc, modelIdx, attempt, calls, waits, lastError, lastText, genOutcome>>
keyVars == <<kpc, argsA, argsB, keyA, keyB>>
truncVars == <<tpc, targs, tres>>
extractVars == <<epc, eargs, eres>>
statsVars == <<stats>>
connVars == <<cached, promises, cpc, jobs>>

\* what the handler leaves alone, and what generateQuiz, the key check and the
\* content helpers do
HandlerFrame == UNCHANGED <<genVars, keyVars, truncVars, extractVars, statsVars, connVars>>
GenFrame == UNCHANGED <<handlerVars, keyVars, truncVars, extractVars, statsVars, connVars>>
KeyFrame == UNCHANGED <<handlerVars, genVars, truncVars, extractVars, statsVars, connVars>>
TruncFrame == UNCHANGED <<handlerVars, genVars, keyVars, extractVars, statsVars, connVars>>
ExtractFrame == UNCHANGED <<handlerVars, genVars, keyVars, truncVars, statsVars, connVars>>
StatsFrame == UNCHANGED <<handlerVars, genVars, keyVars, truncVars, extractVars, connVars>>
ConnFrame == UNCHANGED <<handlerVars, genVars, keyVars, truncVars, extractVars, statsVars>>

NoLocals ==
    [book |-> NoBook, actualPageRange |-> <<>>, numQuestions |-> 0,
     quizDifficulty |-> <<>>, cacheKey |-> <<>>, cachedQuiz |-> <<>>,
     text |-> <<>>, wasTruncated |-> FALSE, questions |-> <<>>, genCalls |-> 0,
     lookupError |-> FALSE, saveError |-> "none", inserted |-> FALSE]

HandlerInit ==
    /\ quizzes = {}
    /\ pc = [r \in Reqs |-> "idle"]
    /\ req = [r \in Reqs |-> NoBody]
    /\ loc = [r \in Reqs |-> NoLocals]
    /\ resp = [r \in Reqs |-> NoResponse]

\* the response is sent and the handler returns
Respond(r, response, locals) ==
    /\ resp' = [resp EXCEPT ![r] = response]
    /\ loc' = [loc EXCEPT ![r] = locals]
    /\ pc' = [pc EXCEPT ![r] = "done"]

\* an absent range taken as the first page only
ActualPageRangeFirstPage(pageRange, book) ==
    IF pageRange # <<>> THEN pageRange ELSE Range(1, 1)

\* line 113: pageRange || { start: 1, end: book.totalPages }
ActualPageRange(pageRange, book) ==
    IF pageRange # <<>> THEN pageRange ELSE Range(1, book.totalPages)

\* lines 95-113 after the boundary checks: connectDB, Book.findById
Receive(r, bodies) ==
    /\ pc[r] = "idle"
    /\ \A o \in 1..(r - 1) : pc[o] # "idle"
    /\ \E body \in bodies :
        /\ req' = [req EXCEPT ![r] = body]
        /\ IF Boundary(body) # <<>>
           THEN Respond(r, Boundary(body)[1], loc[r])
           ELSE LET book == FindBookById(body.bookId[1])
                IN IF book = NoBook
                   THEN Respond(r, ErrorResponse(404, "Book not found"), loc[r])
                   ELSE /\ loc' = [loc EXCEPT ![r] =
                                [@ EXCEPT !.book = book,
                                          !.actualPageRange =
                                              ActualPageRange(body.pageRange, book),
                                          !.numQuestions =
                                              OrDefault(body.numberOfQuestions, {0},
                                                        DefaultQuestions),
                                          !.quizDifficulty =
                                              OrDefault(body.difficulty, {<<>>}, Medium)]]
                        /\ pc' = [pc EXCEPT ![r] = "findCachedQuiz"]
                        /\ UNCHANGED resp
    /\ UNCHANGED quizzes
    /\ HandlerFrame

\* connectDB or Book.findById throws: the catch at line 257 answers 500
ReceiveStoreDown(r, bodies) ==
    /\ pc[r] = "idle"
    /\ \A o \in 1..(r - 1) : pc[o] # "idle"
    /\ \E body \in bodies :
        /\ Boundary(body) = <<>>
        /\ req' = [req EXCEPT ![r] = body]
        /\ Respond(r, ErrorResponse(500, "Failed to generate quiz"), loc[r])
    /\ UNCHANGED quizzes
    /\ HandlerFrame

\* lines 148-204, reached when findCachedQuiz returns null: select, truncate
MissPath(r, locals) ==
    LET sel == SelectContent(locals.book, req[r].pageRange)
        cut == truncateText(sel.text, MAX_CHARS)
    IN IF sel.resp # <<>>
       THEN Respond(r, sel.resp[1], locals)
       ELSE /\ loc' = [loc EXCEPT ![r] =
                    [locals EXCEPT !.text = cut.text, !.wasTruncated = cut.wasTruncated]]
            /\ pc' = [pc EXCEPT ![r] = "generateQuiz"]
            /\ UNCHANGED resp

\* lib/quizCache.js:35: the key findCachedQuiz probes
ProbeKey(r) ==
    generateCacheKey(req[r].bookId[1], loc[r].actualPageRange, loc[r].numQuestions,
                     loc[r].quizDifficulty)

\* lib/quizCache.js:35-52: Quiz.findOne({ cacheKey })
FindOne(r) ==
    /\ pc[r] = "findCachedQuiz"
    /\ LET cacheKey == ProbeKey(r)
           found == {q \in quizzes : q.cacheKey = cacheKey}
           locals == [loc[r] EXCEPT !.cacheKey = cacheKey]
       IN IF found # {}
          THEN /\ loc' = [loc EXCEPT ![r] =
                       [locals EXCEPT !.cachedQuiz = <<CHOOSE q \in found : TRUE>>]]
               /\ pc' = [pc EXCEPT ![r] = "incrementUsage"]
               /\ UNCHANGED resp
          ELSE MissPath(r, locals)
    /\ UNCHANGED <<quizzes, req>>
    /\ HandlerFrame

\* Quiz.findOne throws: the catch at lib/quizCache.js:53 returns null
FindOneThrows(r) ==
    /\ pc[r] = "findCachedQuiz"
    /\ MissPath(r, [loc[r] EXCEPT !.cacheKey = ProbeKey(r), !.lookupError = TRUE])
    /\ UNCHANGED <<quizzes, req>>
    /\ HandlerFrame

IncrementedTwice(usageCount) == usageCount + 2

\* models/Quiz.js:127
Incremented(usageCount) == usageCount + 1

\* models/Quiz.js:126-131 and the hit response (generate.js:124-146):
\* save() writes the document's usageCount over the stored one
IncrementUsage(r) ==
    /\ pc[r] = "incrementUsage"
    /\ LET doc == [loc[r].cachedQuiz[1] EXCEPT !.usageCount = Incremented(@)]
       IN /\ quizzes' = {IF q.id = doc.id THEN [q EXCEPT !.usageCount = doc.usageCount]
                         ELSE q : q \in quizzes}
          /\ Respond(r, QuizResponse(doc, TRUE, doc.usageCount),
                     [loc[r] EXCEPT !.cachedQuiz = <<doc>>])
    /\ UNCHANGED req
    /\ HandlerFrame

\* the save of incrementUsage throws: findCachedQuiz returns null
IncrementUsageThrows(r) ==
    /\ pc[r] = "incrementUsage"
    /\ MissPath(r, [loc[r] EXCEPT !.lookupError = TRUE])
    /\ UNCHANGED <<quizzes, req>>
    /\ HandlerFrame

(***************************************************************************)
(* The miss path: generateQuiz as the handler sees it, saveQuizToCache.    *)
(***************************************************************************)
OptionTexts == <<Str(<<"A", ")">>), Str(<<"B", ")">>), Str(<<"C", ")">>),
                 Str(<<"D", ")">>)>>

\* a question of the form the prompt asks for (lib/gemini.js:86-93)
ValidQuestion(i) ==
    QuestionObj(Str(<<"q">> \o Dec(i)), Arr(OptionTexts), Str(<<"A">>),
                Str(<<"w", "h", "y">>))

ValidQuestions(n) == [i \in 1..n |-> ValidQuestion(i)]

FencedJson(val) == <<Fence, Word("json"), Ws, Json(val), Ws, Fence>>

\* well-formed responses of every length the model may return
HandlerResponses == {FencedJson(DataObj(Arr(ValidQuestions(n)))) : n \in 0..MaxReturned}

\* generate.js:211-215: generateQuiz returns the questions of an accepted response
Generate(r) ==
    /\ pc[r] = "generateQuiz"
    /\ \E text \in HandlerResponses :
        /\ parseQuizResponse(text).ok
        /\ loc' = [loc EXCEPT ![r] =
                [@ EXCEPT !.questions = parseQuizResponse(text).questions,
                          !.genCalls = @ + 1]]
    /\ pc' = [pc EXCEPT ![r] = "saveQuizToCache"]
    /\ UNCHANGED <<quizzes, req, resp>>
    /\ HandlerFrame

\* generateQuiz throws 'Failed to generate quiz: ...': lines 275-282
GenerateFails(r) ==
    /\ pc[r] = "generateQuiz"
    /\ Respond(r, ErrorResponse(500, "Failed to generate quiz. Please try again."),
               [loc[r] EXCEPT !.genCalls = @ + 1])
    /\ UNCHANGED <<quizzes, req>>
    /\ HandlerFrame

\* generate.js:220-222, with Dec for the page numbers of the template
QuizTitle(book, pageRange) ==
    IF pageRange # <<>>
    THEN book.title \o <<" ", "-", " ", "P", "a", "g", "e", "s", " ">>
         \o PageToString(pageRange[1], "start") \o <<"-">>
         \o PageToString(pageRange[1], "end")
    ELSE book.title \o <<" ", "-", " ", "F", "u", "l", "l">>

\* the argument of saveQuizToCache with the requested count as numberOfQuestions
QuizDataRequestedCount(r) ==
    [bookId |-> loc[r].book._id,
     title |-> QuizTitle(loc[r].book, req[r].pageRange),
     pageRange |-> loc[r].actualPageRange[1],
     questions |-> loc[r].questions,
     difficulty |-> loc[r].quizDifficulty,
     numberOfQuestions |-> loc[r].numQuestions]

\* generate.js:225-233: the argument of saveQuizToCache
QuizData(r) ==
    [bookId |-> loc[r].book._id,
     title |-> QuizTitle(loc[r].book, req[r].pageRange),
     pageRange |-> loc[r].actualPageRange[1],
     questions |-> loc[r].questions,
     difficulty |-> loc[r].quizDifficulty,
     numberOfQuestions |-> Len(loc[r].questions)]

\* models/Quiz.js:28-39: start and end are of type Number: the document holds
\* the numbers the values of quizData are cast to
CastRange(range) == [start |-> range.start, end |-> range.end]

\* lib/quizCache.js:68-82: new Quiz({...quizData, cacheKey, usageCount: 1, ...})
NewQuiz(quizData, id) ==
    [id |-> id,
     bookId |-> quizData.bookId,
     title |-> quizData.title,
     pageRange |-> CastRange(quizData.pageRange),
     questions |-> quizData.questions,
     difficulty |-> quizData.difficulty,
     numberOfQuestions |-> quizData.numberOfQuestions,
     cacheKey |-> generateCacheKey(quizData.bookId, <<quizData.pageRange>>,
                                   quizData.numberOfQuestions, quizData.difficulty),
     usageCount |-> 1,
     generatedBy |-> "gemini"]

\* models/Quiz.js:8-104: the validators that run in save()
SchemaValid(quiz) ==
    /\ ~IsBlank(quiz.title)
    /\ quiz.pageRange.start >= 1
    /\ quiz.pageRange.end >= 1
    /\ quiz.numberOfQuestions >= 1
    /\ quiz.difficulty \in validDifficulties
    /\ quiz.cacheKey # <<>>
    /\ quiz.usageCount >= 0
    /\ \A i \in 1..Len(quiz.questions) :
        /\ quiz.questions[i].question.v # <<>>
        /\ Len(quiz.questions[i].options.v) >= 2
        /\ quiz.questions[i].correctAnswer.v # <<>>

NoUniqueIndex(collection, cacheKey) == FALSE

\* models/Quiz.js:88 and :114: the unique index on cacheKey rejects the insert
DuplicateKey(collection, cacheKey) == \E q \in collection : q.cacheKey = cacheKey

\* lib/quizCache.js:65-93 and generate.js:235-256
SaveQuizToCache(r) ==
    /\ pc[r] = "saveQuizToCache"
    /\ LET quiz == NewQuiz(QuizData(r), Cardinality(quizzes) + 1)
       IN IF ~SchemaValid(quiz) \/ DuplicateKey(quizzes, quiz.cacheKey)
          \* quiz.save() throws; the catch at generate.js:257 answers the generic 500
          THEN /\ Respond(r, ErrorResponse(500, "Failed to generate quiz"),
                          [loc[r] EXCEPT !.saveError =
                               IF ~SchemaValid(quiz) THEN "ValidationError"
                               ELSE "DuplicateKey"])
               /\ UNCHANGED quizzes
          ELSE /\ quizzes' = quizzes \cup {quiz}
               /\ Respond(r, QuizResponse(quiz, FALSE, 1), [loc[r] EXCEPT !.inserted = TRUE])
    /\ UNCHANGED req
    /\ HandlerFrame

\* the store is unavailable at quiz.save()
SaveQuizToCacheThrows(r) ==
    /\ pc[r] = "saveQuizToCache"
    /\ Respond(r, ErrorResponse(500, "Failed to generate quiz"),
               [loc[r] EXCEPT !.saveError = "StoreUnavailable"])
    /\ UNCHANGED <<quizzes, req>>
    /\ HandlerFrame

(***************************************************************************)
(* lib/gemini.js: generateQuiz and generateWithRetry, attempt by attempt.  *)
(***************************************************************************)
\* genAI.getGenerativeModel (line 113) only builds a client object and rejects
\* nothing but an empty model name, so with these names the catch of lines
\* 146-150 is never entered: every model of the chain gets its attempts.
MODEL_FALLBACK_CHAIN == <<"gemini-2.0-flash", "gemini-2.5-pro", "gemini-2.5-flash">>

\* the maxRetries generateQuiz passes (line 48)
MaxRetries == 3

\* line 136: attempt * 1000
BackoffBase == 1000

\* the shapes of one element of data.questions: well formed, or one property off
QuestionShapes(i) ==
    LET ok == ValidQuestion(i)
    IN {ok, [ok EXCEPT !.correctAnswer = Str(<<"E">>)], Null, Num(7)}
       \cup {[ok EXCEPT !.question = x] : x \in {Undef, Str(<<>>), Num(7)}}
       \cup {[ok EXCEPT !.options = x] :
                x \in {Undef, Str(<<"a", "b", "c", "d">>), Arr(SubSeq(OptionTexts, 1, 3)),
                       Arr(OptionTexts \o <<Str(<<"E", ")">>)>>)}}
       \cup {[ok EXCEPT !.correctAnswer = x] : x \in {Undef, Str(<<>>), Num(2)}}
       \cup {[ok EXCEPT !.explanation = x] : x \in {Undef, Str(<<>>), Num(2)}}

\* arrays of up to MaxReturned elements, at most one of them not well formed
QuestionArrays ==
    {<<>>} \cup
    UNION {{[ValidQuestions(n) EXCEPT ![i] = sh] : sh \in QuestionShapes(i)} :
              <<n, i>> \in {<<n, i>> \in (1..MaxReturned) \X (1..MaxReturned) : i <= n}}

\* the values a response may parse to
DataValues ==
    {Null, Num(7), Arr(<<>>), DataObj(Undef), DataObj(Null), DataObj(Str(<<"q">>))}
    \cup {DataObj(Arr(a)) : a \in QuestionArrays}

\* the markup a model puts around the JSON text
Wrappings(val) ==
    {<<Json(val)>>,
     <<Ws, Json(val), Ws>>,
     FencedJson(val),
     <<Fence, Ws, Json(val), Ws, Fence, Ws>>,
     <<Fence, Word("json"), Json(val)>>,
     <<Json(val), Ws, Fence>>,
     <<Fence, Word("JSON"), Ws, Json(val), Ws, Fence>>,
     <<Word("Here"), Ws, Fence, Word("json"), Ws, Json(val), Ws, Fence>>,
     <<Fence, Word("json"), Ws, Json(val), Ws, Fence, Ws, Word("Enjoy")>>}

Responses ==
    {<<Json(val)>> : val \in DataValues}
    \cup UNION {Wrappings(DataObj(Arr(ValidQuestions(n)))) : n \in {1, MaxReturned}}
    \cup {<<>>, <<Word("Sorry")>>, <<Fence, Word("json"), Ws, Fence>>}

\* the errors model.generateContent / response.text() throw
ClientErrors == {"429 quota exceeded", "fetch failed"}

\* the arguments of generateQuiz
GenContents == {<<>>, <<" ">>, <<"h", "i">>}
GenCounts == {0, 1, 20, 21}
GenDifficulties == {Easy, Medium, <<"x">>}



NoOutcome == [ok |-> FALSE, questions |-> <<>>, error |-> "none", last |-> "none"]

GenIdle ==
    /\ gpc = "idle"
    /\ modelIdx = 1
    /\ attempt = 1
    /\ calls = <<>>
    /\ waits = <<>>
    /\ lastError = "null"
    /\ lastText = <<>>
    /\ genOutcome = NoOutcome

\* lines 31-42: the message of the input error, or <<>>
GenInputError(content, numberOfQuestions, difficulty) ==
    IF content = <<>> \/ IsBlank(content) THEN <<"Content is required to generate quiz">>
    ELSE IF numberOfQuestions < 1 \/ numberOfQuestions > 20
    THEN <<"Number of questions must be between 1 and 20">>
    ELSE IF difficulty \notin validDifficulties
    THEN <<"Difficulty must be easy, medium, or hard">>
    ELSE <<>>

\* the error of generateQuiz thrown without the message of its cause
GenThrowsNoCause(error, last) ==
    /\ gpc' = "threw"
    /\ genOutcome' = [ok |-> FALSE, questions |-> <<>>, error |-> error, last |-> "none"]

\* lines 51-54: throw new Error(`Failed to generate quiz: ${error.message}`)
GenThrows(error, last) ==
    /\ gpc' = "threw"
    /\ genOutcome' = [ok |-> FALSE, questions |-> <<>>, error |-> error, last |-> last]

\* lines 25-48: generateQuiz is called
GenStart ==
    /\ gpc = "idle"
    /\ \E content \in GenContents, n \in GenCounts, difficulty \in GenDifficulties :
        IF GenInputError(content, n, difficulty) # <<>>
        THEN GenThrows("Failed to generate quiz", GenInputError(content, n, difficulty)[1])
        ELSE gpc' = "call" /\ UNCHANGED genOutcome
    /\ UNCHANGED <<modelIdx, attempt, calls, waits, lastError, lastText>>
    /\ GenFrame

LoopContinuesOffByOne(a, maxRetries) == a < maxRetries

\* line 116: attempt <= maxRetries
LoopContinues(a, maxRetries) == a <= maxRetries

WaitsAfterLastAttempt(a, maxRetries) == a <= maxRetries

\* line 135: attempt < maxRetries
ShouldWait(a, maxRetries) == a < maxRetries

\* the for loops of lines 109 and 116 step: attempt a of the model comes next
NextAttempt(a, last) ==
    IF LoopContinues(a, MaxRetries)
    THEN /\ attempt' = a
         /\ gpc' = "call"
         /\ UNCHANGED <<modelIdx, genOutcome>>
    ELSE IF modelIdx < Len(MODEL_FALLBACK_CHAIN)
    THEN /\ modelIdx' = modelIdx + 1
         /\ attempt' = 1
         /\ gpc' = "call"
         /\ UNCHANGED genOutcome
    \* lines 154-156, rethrown by line 53
    ELSE /\ GenThrows("Failed to generate quiz: Failed to generate quiz with all models", last)
         /\ UNCHANGED <<modelIdx, attempt>>

\* lines 130-139: the catch of one attempt
AttemptFailed(message) ==
    /\ lastError' = message
    /\ IF ShouldWait(attempt, MaxRetries)
       THEN /\ waits' = Append(waits, attempt * BackoffBase)
            /\ gpc' = "wait"
            /\ UNCHANGED <<modelIdx, attempt, genOutcome>>
       ELSE /\ NextAttempt(attempt + 1, message)
            /\ UNCHANGED waits

ResponseRejectedSurfaces(message) ==
    /\ lastError' = message
    /\ GenThrows("Failed to generate quiz: Invalid response", message)
    /\ UNCHANGED <<modelIdx, attempt, waits>>

\* line 126 is inside the try of line 117: the error of parseQuizResponse is
\* caught at line 130 like any other
ResponseRejected(message) == AttemptFailed(message)

\* lines 121-129: generateContent returns a text
AttemptReturns ==
    /\ gpc = "call"
    /\ \E text \in Responses :
        /\ calls' = Append(calls, <<modelIdx, attempt>>)
        /\ lastText' = <<text>>
        /\ IF parseQuizResponse(text).ok
           THEN /\ gpc' = "returned"
                /\ genOutcome' = [ok |-> TRUE, questions |-> parseQuizResponse(text).questions,
                                  error |-> "none", last |-> "none"]
                /\ UNCHANGED <<modelIdx, attempt, waits, lastError>>
           ELSE ResponseRejected(parseQuizResponse(text).message)
    /\ GenFrame

\* lines 121-123 throw
AttemptThrows ==
    /\ gpc = "call"
    /\ \E message \in ClientErrors :
        /\ calls' = Append(calls, <<modelIdx, attempt>>)
        /\ lastText' = <<>>
        /\ AttemptFailed(message)
    /\ GenFrame

\* line 138: the timer fires
WaitElapses ==
    /\ gpc = "wait"
    /\ NextAttempt(attempt + 1, lastError)
    /\ UNCHANGED <<calls, waits, lastError, lastText>>
    /\ GenFrame

(***************************************************************************)
(* The handler running generateQuiz attempt by attempt (generate.js:211).  *)
(***************************************************************************)
\* the message of the error generateQuiz threw, as the parts its templates
\* join (lib/gemini.js:53 and :154-156)
ThrownMessage(outcome) == <<"Failed to generate quiz", outcome.error, outcome.last>>

\* message.includes(part)
Includes(message, part) == \E i \in 1..Len(message) : message[i] = part

\* generate.js:257-298: the response of the catch for an error message
CatchResponse(message) ==
    IF Includes(message, "MONGODB_URI")
    THEN ErrorResponse(500, "Database configuration error. Please check server settings.")
    ELSE IF Includes(message, "GEMINI_API_KEY")
    THEN ErrorResponse(500, "Gemini API key not configured. Please check server settings.")
    ELSE IF Includes(message, "Failed to generate quiz")
    THEN ErrorResponse(500, "Failed to generate quiz. Please try again.")
    ELSE IF Includes(message, "Failed to extract")
    THEN ErrorResponse(400, "Failed to extract text from specified pages.")
    ELSE ErrorResponse(500, "Failed to generate quiz")

\* generate.js:211-215 calls generateQuiz (lib/gemini.js:25-48) with the
\* truncated text, numQuestions and quizDifficulty
CallGenerateQuiz(r) ==
    /\ pc[r] = "generateQuiz"
    /\ gpc = "idle"
    /\ LET inputError == GenInputError(loc[r].text, loc[r].numQuestions,
                                       loc[r].quizDifficulty)
       IN IF inputError # <<>>
          THEN GenThrows("Failed to generate quiz", inputError[1])
          ELSE gpc' = "call" /\ UNCHANGED genOutcome
    /\ UNCHANGED <<modelIdx, attempt, calls, waits, lastError, lastText>>
    /\ GenFrame

\* generateQuiz returned: lines 217-233 go on to saveQuizToCache
GenerateQuizReturns(r) ==
    /\ pc[r] = "generateQuiz"
    /\ gpc = "returned"
    /\ loc' = [loc EXCEPT ![r] =
            [@ EXCEPT !.questions = genOutcome.questions, !.genCalls = @ + 1]]
    /\ pc' = [pc EXCEPT ![r] = "saveQuizToCache"]
    /\ UNCHANGED <<quizzes, req, resp>>
    /\ HandlerFrame

\* generateQuiz threw: the catch of line 257 answers
GenerateQuizThrows(r) ==
    /\ pc[r] = "generateQuiz"
    /\ gpc = "threw"
    /\ Respond(r, CatchResponse(ThrownMessage(genOutcome)),
               [loc[r] EXCEPT !.genCalls = @ + 1])
    /\ UNCHANGED <<quizzes, req>>
    /\ HandlerFrame

(***************************************************************************)
(* generateCacheKey applied to two argument tuples.                        *)
(***************************************************************************)
KeyBookIds == {<<"a">>, <<"a", "1">>, <<"1">>}
KeyPages == {1, 2, 11}
KeyCounts == {1, 2, 11, 20}
KeyDifficulties == {Easy, Hard}

KeyArgs ==
    {[bookId |-> b, pageRange |-> p, numberOfQuestions |-> n, difficulty |-> d] :
        b \in KeyBookIds,
        p \in {<<>>} \cup {Range(x, y) : <<x, y>> \in {<<x, y>> \in KeyPages \X KeyPages : x <= y}},
        n \in KeyCounts, d \in KeyDifficulties}



NoArgs == [bookId |-> <<>>, pageRange |-> <<>>, numberOfQuestions |-> 0,
           difficulty |-> <<>>]

KeyIdle ==
    /\ kpc = "idle"
    /\ argsA = NoArgs
    /\ argsB = NoArgs
    /\ keyA = <<>>
    /\ keyB = <<>>

KeyInit ==
    /\ kpc = "args"
    /\ argsA \in KeyArgs
    /\ argsB \in KeyArgs
    /\ keyA = <<>>
    /\ keyB = <<>>

KeyOf(args) ==
    generateCacheKey(args.bookId, args.pageRange, args.numberOfQuestions, args.difficulty)

ComputeKeys ==
    /\ kpc = "args"
    /\ keyA' = KeyOf(argsA)
    /\ keyB' = KeyOf(argsB)
    /\ kpc' = "done"
    /\ UNCHANGED <<argsA, argsB>>
    /\ KeyFrame

(***************************************************************************)
(* truncateText applied to a text and a limit.                             *)
(***************************************************************************)
\* longest text truncateText is applied to
MaxTextLen == 5

TextChars == {"a", " "}

RECURSIVE TextsOfLen(_)
TextsOfLen(n) ==
    IF n = 0 THEN {<<>>}
    ELSE {<<c>> \o t : c \in TextChars, t \in TextsOfLen(n - 1)}

\* every text of words and spaces up to MaxTextLen characters
Texts == UNION {TextsOfLen(n) : n \in 0..MaxTextLen}

\* a limit is a number of characters: below, at and above every text length
Limits == 0..(MaxTextLen + 1)

NoCut == [text |-> <<>>, wasTruncated |-> FALSE]

NoTruncArgs == [text |-> <<>>, maxChars |-> 0]

TruncIdle ==
    /\ tpc = "idle"
    /\ targs = NoTruncArgs
    /\ tres = NoCut

TruncInit ==
    /\ tpc = "args"
    /\ targs \in [text : Texts, maxChars : Limits]
    /\ tres = NoCut

\* generate.js:348-365
TruncateText ==
    /\ tpc = "args"
    /\ tres' = truncateText(targs.text, targs.maxChars)
    /\ tpc' = "done"
    /\ UNCHANGED targs
    /\ TruncFrame

(***************************************************************************)
(* extractTextFromPages applied to a book with per-page content.           *)
(***************************************************************************)
\* most pages a book has
MaxPages == 3

\* the orders book.pages may be stored in: every arrangement of pages 1..n
PageOrders(n) == {o \in [1..n -> 1..n] : \A i, j \in 1..n : o[i] = o[j] => i = j}

\* page k holds its digit twice, or nothing when it is blank
PageText(k, blank) == IF blank THEN <<>> ELSE Dec(k) \o Dec(k)

\* books of n pages, pageNumber values 1..n, in any stored order
PagedBooks(n) ==
    {[_id |-> HexId("e"), title |-> <<"E">>, totalPages |-> n,
      pages |-> [i \in 1..n |-> Page(o[i], PageText(o[i], blank[o[i]]))],
      pdfText |-> <<>>] :
        o \in PageOrders(n), blank \in [1..n -> BOOLEAN]}

\* a book and a range with 1 <= startPage <= endPage <= totalPages
ExtractArgs ==
    UNION {{[book |-> b, startPage |-> se[1], endPage |-> se[2]] :
                b \in PagedBooks(n),
                se \in {x \in (1..n) \X (1..n) : x[1] <= x[2]}} : n \in 1..MaxPages}

NoExtractArgs == [book |-> NoBook, startPage |-> 0, endPage |-> 0]

NoExtract == [ok |-> FALSE, text |-> <<>>, pages |-> <<>>]

ExtractIdle ==
    /\ epc = "idle"
    /\ eargs = NoExtractArgs
    /\ eres = NoExtract

ExtractInit ==
    /\ epc = "args"
    /\ eargs \in ExtractArgs
    /\ eres = NoExtract

\* generate.js:308-340: filter builds a new array, which sort orders in place;
\* book.pages itself is only read
ExtractTextFromPages ==
    /\ epc = "args"
    /\ LET out == extractTextFromPages(eargs.book, eargs.startPage, eargs.endPage)
       IN eres' = [ok |-> out.ok, text |-> out.text, pages |-> eargs.book.pages]
    /\ epc' = "done"
    /\ UNCHANGED eargs
    /\ ExtractFrame

(***************************************************************************)
(* lib/quizCache.js:100-159: getCacheStats.                                *)
(***************************************************************************)
tokensPerQuiz == 1500

\* line 103: Quiz.find({ bookId })
Find(collection, bookId) == {q \in collection : q.bookId = bookId}

\* lines 105-113: what is returned when the book has no quizzes
ZeroedStats ==
    [totalQuizzes |-> 0, uniqueConfigurations |-> 0, cacheHitRate |-> 0,
     tokensSaved |-> 0, topConfigurations |-> <<>>]

\* line 117: new Set(quizzes.map(q => q.cacheKey)).size
UniqueConfigurations(found) == Cardinality({q.cacheKey : q \in found})

\* line 120: quizzes.reduce((sum, q) => sum + q.usageCount, 0)
RECURSIVE TotalUsage(_)
TotalUsage(collection) ==
    IF collection = {} THEN 0
    ELSE LET q == CHOOSE x \in collection : TRUE
         IN q.usageCount + TotalUsage(collection \ {q})

CacheHitsIsTotalUsage(totalUsage, uniqueConfigurations) == totalUsage

\* line 123
CacheHits(totalUsage, uniqueConfigurations) == totalUsage - uniqueConfigurations

\* lines 124 and 151: the percentage to one decimal place (toFixed(1) rounds
\* to the nearest tenth, the larger on a tie), here in tenths of a percent
CacheHitRate(cacheHits, totalUsage) ==
    IF totalUsage > 0
    THEN (2 * 1000 * cacheHits + totalUsage) \div (2 * totalUsage)
    ELSE 0

\* lines 131-133: the documents in the order find returned them (the order of
\* insertion, which is the order of ids), sorted by usageCount descending
\* with a stable sort, the first five kept
RECURSIVE SortByUsage(_)
SortByUsage(found) ==
    IF found = {} THEN <<>>
    ELSE LET q == CHOOSE x \in found : \A y \in found :
                      \/ x.usageCount > y.usageCount
                      \/ x.usageCount = y.usageCount /\ x.id <= y.id
         IN <<q>> \o SortByUsage(found \ {q})

Slice5(list) == SubSeq(list, 1, IF Len(list) < 5 THEN Len(list) ELSE 5)

\* lines 134-140 (lastUsedAt is a timestamp and is left out of the documents)
TopConfiguration(q) ==
    [pageRange |-> NumberToString(q.pageRange.start) \o <<"-">>
                   \o NumberToString(q.pageRange.end),
     difficulty |-> q.difficulty,
     questions |-> q.numberOfQuestions,
     usageCount |-> q.usageCount]

getCacheStats(collection, bookId) ==
    LET found == Find(collection, bookId)
        totalQuizzes == Cardinality(found)
        uniqueConfigurations == UniqueConfigurations(found)
        totalUsage == TotalUsage(found)
        cacheHits == CacheHits(totalUsage, uniqueConfigurations)
        top == Slice5(SortByUsage(found))
    IN IF totalQuizzes = 0 THEN ZeroedStats
       ELSE [totalQuizzes |-> totalQuizzes,
             uniqueConfigurations |-> uniqueConfigurations,
             cacheHitRate |-> CacheHitRate(cacheHits, totalUsage),
             tokensSaved |-> cacheHits * tokensPerQuiz,
             topConfigurations |-> [i \in 1..Len(top) |-> TopConfiguration(top[i])]]

StatsIdle == stats = <<>>

\* a call of getCacheStats between two requests
GetCacheStats(bookId) ==
    /\ pc[1] = "idle"
    /\ stats' = <<[bookId |-> bookId, result |-> getCacheStats(quizzes, bookId)]>>
    /\ StatsFrame

(***************************************************************************)
(* lib/mongodb.js: connectDB and the connection it caches.  Node runs one  *)
(* task at a time: a request that arrives, or the event that settles the   *)
(* promise of mongoose.connect, starts only when the microtask queue is    *)
(* empty, and the continuations of the callers awaiting a promise are      *)
(* queued together, in the order they awaited, when the promise settles.   *)
(***************************************************************************)
MaxCallers == 3
MaxConnects == 3

Callers == 1..MaxCallers

\* lines 35-40: cached = global.mongoose = { conn: null, promise: null }
ConnInit ==
    /\ cached = [conn |-> FALSE, promise |-> 0]
    /\ promises = <<>>
    /\ cpc = [c \in Callers |-> "idle"]
    /\ jobs = <<>>

AlwaysConnects(promise) == TRUE

\* line 53: !cached.promise
NeedsConnect(promise) == promise = 0

\* lines 59-62: mongoose.connect(MONGODB_URI, opts).then(...), a new promise
NewPromise == [state |-> "pending", reactions |-> <<>>]

\* line 67: await cached.promise, for caller c and the promise p of the list
\* after: the continuation waits for a pending promise and is queued at once
\* for a settled one
Await(c, p, after) ==
    IF after[p].state = "pending"
    THEN /\ promises' = [after EXCEPT ![p].reactions = Append(@, c)]
         /\ UNCHANGED jobs
    ELSE /\ promises' = after
         /\ jobs' = Append(jobs, [caller |-> c, fulfilled |-> after[p].state = "fulfilled"])

\* lines 46-67: connectDB runs up to its return or its await
ConnectDB(c) ==
    /\ cpc[c] = "idle"
    /\ jobs = <<>>
    /\ IF cached.conn
       THEN /\ cpc' = [cpc EXCEPT ![c] = "returned"]
            /\ UNCHANGED <<cached, promises, jobs>>
       ELSE /\ cpc' = [cpc EXCEPT ![c] = "awaiting"]
            /\ IF NeedsConnect(cached.promise)
               THEN /\ Len(promises) < MaxConnects
                    /\ cached' = [cached EXCEPT !.promise = Len(promises) + 1]
                    /\ Await(c, Len(promises) + 1, Append(promises, NewPromise))
               ELSE /\ UNCHANGED cached
                    /\ Await(c, cached.promise, promises)
    /\ ConnFrame

\* the promise settles: the continuations of its awaiters are queued
Settle(p, state) ==
    /\ promises[p].state = "pending"
    /\ jobs = <<>>
    /\ promises' = [promises EXCEPT ![p] = [state |-> state, reactions |-> <<>>]]
    /\ jobs' = [i \in 1..Len(promises[p].reactions) |->
                    [caller |-> promises[p].reactions[i], fulfilled |-> state = "fulfilled"]]
    /\ UNCHANGED <<cached, cpc>>
    /\ ConnFrame

\* mongoose.connect succeeds
ConnectFulfils == \E p \in 1..Len(promises) : Settle(p, "fulfilled")

\* mongoose.connect fails
ConnectRejects == \E p \in 1..Len(promises) : Settle(p, "rejected")

\* lines 65-75: the continuation at the head of the queue runs: the await
\* returns the connection, or throws into the catch of line 68
Resume ==
    /\ jobs # <<>>
    /\ LET job == Head(jobs)
       IN IF job.fulfilled
          THEN /\ cached' = [cached EXCEPT !.conn = TRUE]
               /\ cpc' = [cpc EXCEPT ![job.caller] = "returned"]
          ELSE /\ cached' = [cached EXCEPT !.promise = 0]
               /\ cpc' = [cpc EXCEPT ![job.caller] = "threw"]
    /\ jobs' = Tail(jobs)
    /\ UNCHANGED promises
    /\ ConnFrame

\* the caller has its answer; it may call again in a later request
CallerDone(c) ==
    /\ cpc[c] \in {"returned", "threw"}
    /\ cpc' = [cpc EXCEPT ![c] = "idle"]
    /\ UNCHANGED <<cached, promises, jobs>>
    /\ ConnFrame

(***************************************************************************)
(* Specifications.                                                         *)
(***************************************************************************)
vars == <<quizzes, pc, req, loc, resp, gpc, modelIdx, attempt, calls, waits,
          lastError, lastText, genOutcome, kpc, argsA, argsB, keyA, keyB,
          tpc, targs, tres, epc, eargs, eres, stats, cached, promises, cpc, jobs>>

HandlerStep(r, bodies) ==
    \/ Receive(r, bodies)
    \/ ReceiveStoreDown(r, bodies)
    \/ FindOne(r)
    \/ FindOneThrows(r)
    \/ IncrementUsage(r)
    \/ IncrementUsageThrows(r)
    \/ Generate(r)
    \/ GenerateFails(r)
    \/ SaveQuizToCache(r)
    \/ SaveQuizToCacheThrows(r)

Init == HandlerInit /\ GenIdle /\ KeyIdle /\ TruncIdle /\ ExtractIdle /\ StatsIdle /\ ConnInit

\* requests overlap freely
Next == \E r \in Reqs : HandlerStep(r, RaceBodies)

Spec == Init /\ [][Next]_vars

\* the response has been sent: the next request is handled
Forget(r) ==
    /\ pc[r] = "done"
    /\ pc' = [pc EXCEPT ![r] = "idle"]
    /\ req' = [req EXCEPT ![r] = NoBody]
    /\ loc' = [loc EXCEPT ![r] = NoLocals]
    /\ resp' = [resp EXCEPT ![r] = NoResponse]
    /\ UNCHANGED quizzes
    /\ HandlerFrame

\* one request at a time, each handled to its response before the next
SeqReceive == TotalUsage(quizzes) < MaxSeqUsage /\ Receive(1, Bodies)

SeqReceiveStoreDown == TotalUsage(quizzes) < MaxSeqUsage /\ ReceiveStoreDown(1, Bodies)

SeqNext ==
    \/ SeqReceive
    \/ SeqReceiveStoreDown
    \/ FindOne(1)
    \/ FindOneThrows(1)
    \/ IncrementUsage(1)
    \/ IncrementUsageThrows(1)
    \/ Generate(1)
    \/ GenerateFails(1)
    \/ SaveQuizToCache(1)
    \/ SaveQuizToCacheThrows(1)
    \/ Forget(1)

SeqSpec == Init /\ [][SeqNext]_vars

\* the books that statistics are asked for: both books of the library and an
\* id no book has
StatsBookIds == {BookA._id, BookB._id, HexId("z")}

\* requests one after another, and getCacheStats called between them
StatsNext ==
    \/ SeqReceive
    \/ SeqReceiveStoreDown
    \/ FindOne(1)
    \/ FindOneThrows(1)
    \/ IncrementUsage(1)
    \/ IncrementUsageThrows(1)
    \/ Generate(1)
    \/ GenerateFails(1)
    \/ SaveQuizToCache(1)
    \/ SaveQuizToCacheThrows(1)
    \/ Forget(1)
    \/ \E bookId \in StatsBookIds : GetCacheStats(bookId)

StatsSpec == Init /\ [][StatsNext]_vars

\* requests whose page numbers are numbers, or the strings a JSON body may
\* hold in their place
TypedBodies ==
    {Body("POST", <<BookA._id>>, p, <<n>>, <<Medium>>) :
        p \in {Range(1, 2), Range(1, 1),
               StringRange(<<"1">>, <<"2">>), StringRange(<<"0", "1">>, <<"0", "2">>),
               StringRange(<<"2">>, <<"1", "0">>), StringRange(<<"0">>, <<"1">>),
               StringRange(<<>>, <<"1">>)},
        n \in 1..2}

TypedReceive == TotalUsage(quizzes) < MaxSeqUsage /\ Receive(1, TypedBodies)

\* one request at a time, of either type of page number
TypedNext ==
    \/ TypedReceive
    \/ FindOne(1)
    \/ FindOneThrows(1)
    \/ IncrementUsage(1)
    \/ IncrementUsageThrows(1)
    \/ Generate(1)
    \/ GenerateFails(1)
    \/ SaveQuizToCache(1)
    \/ SaveQuizToCacheThrows(1)
    \/ Forget(1)

TypedSpec == Init /\ [][TypedNext]_vars

\* the handlers of several requests calling connectDB
ConnNext ==
    \/ \E c \in Callers : ConnectDB(c)
    \/ ConnectFulfils
    \/ ConnectRejects
    \/ Resume
    \/ \E c \in Callers : CallerDone(c)

ConnSpec == Init /\ [][ConnNext]_vars

GenNext == GenStart \/ AttemptReturns \/ AttemptThrows \/ WaitElapses

GenSpec == Init /\ [][GenNext]_vars

KeyNext == ComputeKeys

KeyStart == HandlerInit /\ GenIdle /\ KeyInit /\ TruncIdle /\ ExtractIdle /\ StatsIdle /\ ConnInit

KeySpec == KeyStart /\ [][KeyNext]_vars

\* a quiz for the whole of BookA that an earlier request generated and stored
StoredQuiz ==
    NewQuiz([bookId |-> BookA._id, title |-> QuizTitle(BookA, <<>>),
             pageRange |-> Range(1, BookA.totalPages)[1],
             questions |-> ValidQuestions(1), difficulty |-> Medium,
             numberOfQuestions |-> 1], 1)

\* the handler's state when requests arrive for a quiz already in the cache
StoredInit ==
    /\ quizzes = {StoredQuiz}
    /\ pc = [r \in Reqs |-> "idle"]
    /\ req = [r \in Reqs |-> NoBody]
    /\ loc = [r \in Reqs |-> NoLocals]
    /\ resp = [r \in Reqs |-> NoResponse]

HitStart == StoredInit /\ GenIdle /\ KeyIdle /\ TruncIdle /\ ExtractIdle /\ StatsIdle /\ ConnInit

\* overlapping requests that find the quiz they ask for in the cache
HitSpec == HitStart /\ [][Next]_vars

\* a request for the cached quiz, whole book or pages 1-2, and one for a quiz
\* that is not cached
AttemptBodies == RaceBodies \cup {Body("POST", <<BookA._id>>, <<>>, <<2>>, <<Medium>>)}

\* one request handled with generateQuiz run attempt by attempt
AttemptNext ==
    \/ Receive(1, AttemptBodies)
    \/ FindOne(1)
    \/ FindOneThrows(1)
    \/ IncrementUsage(1)
    \/ IncrementUsageThrows(1)
    \/ CallGenerateQuiz(1)
    \/ AttemptReturns
    \/ AttemptThrows
    \/ WaitElapses
    \/ GenerateQuizReturns(1)
    \/ GenerateQuizThrows(1)
    \/ SaveQuizToCache(1)
    \/ SaveQuizToCacheThrows(1)

AttemptSpec == HitStart /\ [][AttemptNext]_vars

\* the steps the program takes by itself; AttemptReturns and AttemptThrows are
\* the external call settling, which no timer in the code forces
OwnSteps ==
    \/ Receive(1, AttemptBodies)
    \/ FindOne(1)
    \/ FindOneThrows(1)
    \/ IncrementUsage(1)
    \/ IncrementUsageThrows(1)
    \/ CallGenerateQuiz(1)
    \/ WaitElapses
    \/ GenerateQuizReturns(1)
    \/ GenerateQuizThrows(1)
    \/ SaveQuizToCache(1)
    \/ SaveQuizToCacheThrows(1)

\* the program's own steps are taken when they can be; generateContent
\* (lib/gemini.js:121) may or may not settle
AttemptLiveSpec == HitStart /\ [][AttemptNext]_vars /\ WF_vars(OwnSteps)

TruncNext == TruncateText

TruncStart == HandlerInit /\ GenIdle /\ KeyIdle /\ ExtractIdle /\ TruncInit /\ StatsIdle /\ ConnInit

TruncSpec == TruncStart /\ [][TruncNext]_vars

ExtractNext == ExtractTextFromPages

ExtractStart == HandlerInit /\ GenIdle /\ KeyIdle /\ TruncIdle /\ ExtractInit /\ StatsIdle /\ ConnInit

ExtractSpec == ExtractStart /\ [][ExtractNext]_vars

(***************************************************************************)
(* Properties.                                                             *)
(***************************************************************************)
\* a request that found no cached quiz and whose lookup did not fail
CleanMiss(r) == loc[r].cachedQuiz = <<>> /\ ~loc[r].lookupError

\* the requests answered from the cache with quiz q
HitsOn(q) == {r \in Reqs : pc[r] = "done" /\ resp[r].fromCache /\ resp[r].quizId = q.id}

\* C1: a request that completes the miss path and persists a quiz leaves the
\* record stored under the cache key its own cache check probed, whatever
\* number of questions the model returned (SeqSpec).
C1_StoredUnderProbedKey ==
    \A r \in Reqs :
        (pc[r] = "done" /\ resp[r].success /\ ~resp[r].fromCache)
        => \E q \in quizzes : q.id = resp[r].quizId /\ q.cacheKey = loc[r].cacheKey

\* C2: of two concurrent requests with the same cache key that both miss and
\* both generate, the one whose insert fails on the unique index is answered
\* with the winner's quiz, never with an error (Spec).
C2_DuplicateKeyRecovered ==
    \A r, w \in Reqs :
        (/\ r # w
         /\ pc[r] = "done" /\ pc[w] = "done"
         /\ CleanMiss(r) /\ CleanMiss(w)
         /\ loc[r].cacheKey = loc[w].cacheKey
         /\ loc[w].inserted
         /\ loc[r].saveError = "DuplicateKey")
        => /\ resp[r].success
           /\ resp[r].quizId = resp[w].quizId

\* C3: once no lookup on a stored quiz is in flight, its usageCount is the 1 of
\* its creation plus the number of cache-hit lookups completed on it: no
\* increment is lost (Spec).
C3_NoLostIncrement ==
    \A q \in quizzes :
        (\A r \in Reqs : pc[r] = "incrementUsage" => loc[r].cachedQuiz[1].id # q.id)
        => q.usageCount = 1 + Cardinality(HitsOn(q))

\* C4: with requests handled one after another, a lookup that hits returns the
\* record stored under the probed key with its questions unchanged, adds
\* exactly 1 to the stored usageCount and touches nothing else in the
\* collection, and reports the incremented usageCount (SeqSpec).
C4_SequentialLookup ==
    [][\A r \in Reqs :
        (pc[r] = "incrementUsage" /\ pc'[r] = "done" /\ resp'[r].fromCache)
        => \E q \in quizzes :
            /\ q.cacheKey = loc[r].cacheKey
            /\ resp'[r].quizId = q.id
            /\ resp'[r].questions = q.questions
            /\ resp'[r].usageCount = q.usageCount + 1
            /\ quizzes' = (quizzes \ {q}) \cup {[q EXCEPT !.usageCount = q.usageCount + 1]}]_vars

\* C4 happens: a second hit on the same record has been answered with usageCount 3
C4_Witness ==
    /\ pc[1] = "done"
    /\ resp[1].fromCache
    /\ resp[1].usageCount = 3
    /\ \E q \in quizzes : q.id = resp[1].quizId /\ q.usageCount = 3

\* C5: no two stored quizzes share a cacheKey; a save that meets an existing key
\* is answered with an error and adds nothing: the collection holds exactly
\* one record per successful insert (Spec).
C5_UniqueCacheKey ==
    /\ \A q1, q2 \in quizzes : q1.cacheKey = q2.cacheKey => q1 = q2
    /\ \A r \in Reqs : loc[r].saveError = "DuplicateKey" => ~loc[r].inserted /\ ~resp[r].success
    /\ Cardinality(quizzes) = Cardinality({r \in Reqs : loc[r].inserted})

\* C5 happens: an insert for a key already stored has failed
C5_Witness ==
    \E r \in Reqs :
        /\ loc[r].saveError = "DuplicateKey"
        /\ \E q \in quizzes : q.cacheKey = NewQuiz(QuizData(r), 0).cacheKey

\* the claim's domain: a page range is present (1 <= start <= end by KeyArgs)
Validated(args) == args.pageRange # <<>>

\* C6: over validated arguments (dash-free bookId, 1 <= start <= end, count in
\* 1..20, difficulty of the enum) generateCacheKey gives two tuples the same
\* key if and only if the tuples are equal (KeySpec).
C6_KeyInjective ==
    (kpc = "done" /\ Validated(argsA) /\ Validated(argsB))
    => ((keyA = keyB) <=> (argsA = argsB))

\* C6 happens: keys computed for two different tuples whose digits agree
C6_Witness ==
    /\ kpc = "done"
    /\ argsA.bookId = <<"a">> /\ argsA.pageRange = Range(1, 11) /\ argsA.numberOfQuestions = 1
    /\ argsB.bookId = <<"a", "1">> /\ argsB.pageRange = Range(1, 1) /\ argsB.numberOfQuestions = 1
    /\ argsA.difficulty = argsB.difficulty
    /\ keyA # keyB

\* the generateContent calls a run with every attempt failing makes, in order
ChainCall(k) == <<((k - 1) \div MaxRetries) + 1, ((k - 1) % MaxRetries) + 1>>

TotalCalls == Len(MODEL_FALLBACK_CHAIN) * MaxRetries

AllModelsFailed ==
    /\ gpc = "threw"
    /\ genOutcome.error = "Failed to generate quiz: Failed to generate quiz with all models"

\* C7: when every attempt on every model fails (the call throws or its response
\* is rejected), generateQuiz throws the all-models-failed error after exactly
\* 3 x 3 = 9 generateContent calls: never more than 9 calls are made, the error
\* is thrown at 9 failed calls and at no smaller number (GenSpec).
C7_FallbackExhaustion ==
    /\ Len(calls) <= TotalCalls
    /\ TotalCalls = 9
    /\ AllModelsFailed => Len(calls) = TotalCalls
    /\ (Len(calls) = TotalCalls /\ gpc # "returned") => AllModelsFailed
    /\ (gpc = "threw" /\ calls # <<>>) => AllModelsFailed

\* C7 happens: nine calls failed, the last of them by a rejected response
C7_Witness ==
    /\ AllModelsFailed
    /\ Len(calls) = 9
    /\ lastText # <<>>
    /\ genOutcome.last # "fetch failed"

\* C8: the calls made are the chain's models in order with MaxRetries attempts
\* each, whatever the kind of each failure; while a call is pending or a wait
\* runs every earlier call has failed; the first accepted response ends
\* generation with exactly its questions; and an error is thrown only when no
\* model is left (GenSpec).
C8_ChainOrder ==
    /\ \A k \in 1..Len(calls) : calls[k] = ChainCall(k)
    /\ gpc = "call" => <<modelIdx, attempt>> = ChainCall(Len(calls) + 1)
    /\ gpc = "wait" => <<modelIdx, attempt>> = ChainCall(Len(calls))
    /\ (lastText # <<>> /\ parseQuizResponse(lastText[1]).ok)
       => (gpc = "returned" /\ genOutcome.ok
           /\ genOutcome.questions = parseQuizResponse(lastText[1]).questions)
    /\ gpc = "returned" => (lastText # <<>> /\ parseQuizResponse(lastText[1]).ok)
    /\ (gpc = "threw" /\ calls # <<>>) => calls[Len(calls)][1] = Len(MODEL_FALLBACK_CHAIN)

\* C8 happens: the second model's second attempt succeeded after four failures
C8_Witness ==
    /\ gpc = "returned"
    /\ calls = <<<<1, 1>>, <<1, 2>>, <<1, 3>>, <<2, 1>>, <<2, 2>>>>
    /\ Len(genOutcome.questions) = MaxReturned

OptionLabels == {"A", "B", "C", "D"}

\* the label an option text starts with, as in "A) First option"
LabelOf(option) == IF option.t = "string" /\ option.v # <<>> THEN option.v[1] ELSE ""

\* C9: every question generateQuiz returns (the handler persists and answers
\* with exactly these) has a correctAnswer that is one of the labels A, B, C, D
\* and is the label of exactly one of its options (GenSpec).
C9_CorrectAnswerIsALabel ==
    gpc = "returned"
    => \A i \in 1..Len(genOutcome.questions) :
        LET q == genOutcome.questions[i]
        IN /\ q.correctAnswer.t = "string"
           /\ Len(q.correctAnswer.v) = 1
           /\ q.correctAnswer.v[1] \in OptionLabels
           /\ Cardinality({j \in 1..Len(q.options.v) :
                             LabelOf(q.options.v[j]) = q.correctAnswer.v[1]}) = 1

\* a non-empty value: anything but undefined, null, '' and 0
NonEmpty(x) == ~Falsy(x)

NonEmptyString(x) == IsString(x) /\ x.v # <<>>

\* the element shape of the claim as written
ShapeAsClaimed(q) ==
    /\ q.t = "object"
    /\ NonEmptyString(q.question)
    /\ IsArray(q.options) /\ Len(q.options.v) = 4
    /\ NonEmpty(q.correctAnswer)
    /\ NonEmpty(q.explanation)

\* the element shape with correctAnswer and explanation required to be strings
ShapeAsAmended(q) ==
    /\ q.t = "object"
    /\ NonEmptyString(q.question)
    /\ IsArray(q.options) /\ Len(q.options.v) = 4
    /\ NonEmptyString(q.correctAnswer)
    /\ NonEmptyString(q.explanation)

\* the text without the code fence around it: an opening ``` or ```json at its
\* start and the closing ``` at its end
SurroundingFenceStripped(text) ==
    LET t == Trim(text)
        opened == IF Len(t) >= 2 /\ t[2] = Word("json") THEN SubSeq(t, 3, Len(t))
                  ELSE Tail(t)
    IN IF t # <<>> /\ t[1] = Fence THEN DropClosingFence(DropLeadingWs(opened)) ELSE t

\* the text, its code-fence markup stripped, parses to an object with a
\* questions array whose every element has the shape
ParsesToQuestions(text, Shape(_)) ==
    LET parsed == JSONParse(SurroundingFenceStripped(text))
    IN /\ parsed # <<>>
       /\ parsed[1].t = "object"
       /\ IsArray(parsed[1].questions)
       /\ \A i \in 1..Len(parsed[1].questions.v) : Shape(parsed[1].questions.v[i])

\* C10 as claimed: the response of the last call was accepted if and only if
\* it parses to a questions array of elements with a non-empty string question,
\* exactly 4 options, a non-empty correctAnswer and a non-empty explanation
\* (GenSpec).
C10_AcceptsIffShape ==
    lastText # <<>> => ((gpc = "returned") <=> ParsesToQuestions(lastText[1], ShapeAsClaimed))

\* C10 amended: ... a non-empty string correctAnswer and a non-empty string
\* explanation; accepted responses are returned element for element (GenSpec).
C10_AcceptsIffStringShape ==
    lastText # <<>>
    => /\ (gpc = "returned") <=> ParsesToQuestions(lastText[1], ShapeAsAmended)
       /\ gpc = "returned"
          => genOutcome.questions =
                 JSONParse(SurroundingFenceStripped(lastText[1]))[1].questions.v

\* C10 happens: fenced responses of two questions have been accepted and
\* rejected, the rejected one for a correctAnswer that is a number
C10_Witness ==
    /\ lastText # <<>>
    /\ gpc # "returned"
    /\ lastError = "Invalid response format: missing or invalid correctAnswer"
    /\ LET parsed == JSONParse(SurroundingFenceStripped(lastText[1]))
       IN /\ parsed # <<>>
          /\ Len(parsed[1].questions.v) = MaxReturned
          /\ \E i \in 1..MaxReturned : parsed[1].questions.v[i].correctAnswer.t = "number"

\* s is a prefix of t
IsPrefix(s, t) == Len(s) <= Len(t) /\ SubSeq(t, 1, Len(s)) = s

\* C11: for every text and every limit maxChars (a number of characters),
\* truncateText returns a prefix of the text no longer than maxChars, returns the
\* text unchanged when it is no longer than maxChars, and sets wasTruncated
\* exactly when the text is longer than maxChars (TruncSpec).
C11_TruncateBounded ==
    tpc = "done" =>
        /\ Len(tres.text) <= targs.maxChars
        /\ IsPrefix(tres.text, targs.text)
        /\ (Len(targs.text) <= targs.maxChars => tres.text = targs.text)
        /\ (tres.wasTruncated <=> Len(targs.text) > targs.maxChars)

\* C11 happens: a text longer than the limit was cut, and backed up to a space
C11_Witness ==
    /\ tpc = "done"
    /\ tres.wasTruncated
    /\ targs.maxChars >= 2
    /\ tres.text # <<>>
    /\ Len(tres.text) < targs.maxChars

\* the first maxChars characters of the text contain a space
SpaceInCutRegion(text, maxChars) == \E i \in 1..Min(maxChars, Len(text)) : text[i] = " "

\* the returned prefix ends inside a word of the text: its last character and
\* the character of the text that follows it are both not spaces
EndsMidWord(prefix, text) ==
    /\ prefix # <<>>
    /\ Len(prefix) < Len(text)
    /\ prefix[Len(prefix)] # " "
    /\ text[Len(prefix) + 1] # " "

\* C12: when the text is longer than maxChars and its first maxChars characters
\* contain a space (at any index, index 0 included), the text truncateText
\* returns is a prefix of the text that does not end inside a word (TruncSpec).
C12_NoMidWordCut ==
    (/\ tpc = "done"
     /\ Len(targs.text) > targs.maxChars
     /\ SpaceInCutRegion(targs.text, targs.maxChars))
    => /\ IsPrefix(tres.text, targs.text)
       /\ ~EndsMidWord(tres.text, targs.text)

\* the text of the page of the book whose pageNumber is n
TextOfPage(book, n) ==
    book.pages[CHOOSE i \in 1..Len(book.pages) : book.pages[i].pageNumber = n].text

\* the texts of pages s..e in ascending pageNumber order
TextsAscending(book, s, e) == [k \in 1..(e - s + 1) |-> TextOfPage(book, s + k - 1)]

\* C13: for a book with per-page content and 1 <= s <= e <= totalPages,
\* extractTextFromPages returns the texts of exactly the pages numbered s..e, in
\* ascending pageNumber order whatever order book.pages is stored in, joined by
\* a blank line, and book.pages is the same after the call (ExtractSpec).
C13_RangeExtraction ==
    epc = "done" =>
        /\ eres.ok
        /\ eres.text = Join(TextsAscending(eargs.book, eargs.startPage, eargs.endPage),
                            BlankLine)
        /\ eres.pages = eargs.book.pages

\* C13 happens: two pages of the range are stored in descending order, a third
\* page lies outside the range
C13_Witness ==
    /\ epc = "done"
    /\ eargs.endPage < eargs.book.totalPages
    /\ \E i, j \in 1..Len(eargs.book.pages) :
        /\ i < j
        /\ eargs.book.pages[i].pageNumber > eargs.book.pages[j].pageNumber
        /\ eargs.book.pages[j].pageNumber >= eargs.startPage
        /\ eargs.book.pages[i].pageNumber <= eargs.endPage
        /\ eargs.book.pages[i].text # <<>>
        /\ eargs.book.pages[j].text # <<>>

\* request r is a POST that got its book, and its range ends past the book
EndsPastBook(r) ==
    /\ pc[r] # "idle"
    /\ loc[r].book # NoBook
    /\ req[r].pageRange # <<>>
    /\ req[r].pageRange[1].end > loc[r].book.totalPages

RangeExceededError == ErrorResponse(400, "Page range exceeds book's total pages")

\* C14: whatever the quiz store holds, a request whose pageRange.end is greater
\* than its book's totalPages ends with the RangeExceeded error (HTTP 400): it
\* finds no cached quiz, reaches no generation call and inserts no record, and
\* no stored record has a range that ends past its book (SeqSpec).
C14_RangeExceeded ==
    /\ \A r \in Reqs : EndsPastBook(r) =>
        /\ pc[r] \in {"findCachedQuiz", "done"}
        /\ loc[r].cachedQuiz = <<>>
        /\ loc[r].genCalls = 0
        /\ ~loc[r].inserted
        /\ pc[r] = "done" => resp[r] = RangeExceededError
    /\ \A q \in quizzes : q.pageRange.end <= FindBookById(q.bookId).totalPages

\* C14 happens: with a quiz of the same book in the store, a request for pages
\* past the end of the book has been answered
C14_Witness ==
    \E r \in Reqs :
        /\ EndsPastBook(r)
        /\ pc[r] = "done"
        /\ resp[r].status = 400
        /\ \E q \in quizzes : q.bookId = loc[r].book._id

\* request r carries a numberOfQuestions outside 1..20
CountOutOfBounds(r) ==
    /\ req[r].method = "POST"
    /\ req[r].numberOfQuestions # <<>>
    /\ req[r].numberOfQuestions[1] \notin MinQuestions..MaxQuestions

\* C15: a request whose numberOfQuestions is an integer outside 1..20 (zero,
\* negative, above 20) is answered with HTTP 400 before the book is fetched,
\* the cache probed or a generation call made; no default count serves it
\* (SeqSpec).
C15_CountOutOfBoundsRejected ==
    \A r \in Reqs : CountOutOfBounds(r) =>
        /\ pc[r] = "done"
        /\ resp[r].status = 400
        /\ loc[r] = NoLocals

\* the body has a missing or malformed bookId, a difficulty outside easy,
\* medium, hard, or a page range with start > end, start < 1 or end < 1
Malformed(body) ==
    /\ body.method = "POST"
    /\ \/ body.bookId = <<>>
       \/ ~(Len(body.bookId[1]) = ObjectIdLen
            /\ \A i \in 1..Len(body.bookId[1]) : body.bookId[1][i] \in HexChars)
       \/ body.difficulty # <<>> /\ body.difficulty[1] \notin {Easy, Medium, Hard}
       \/ /\ body.pageRange # <<>>
          /\ \/ body.pageRange[1].start > body.pageRange[1].end
             \/ body.pageRange[1].start < 1
             \/ body.pageRange[1].end < 1

\* C16: a request with a missing or malformed bookId, a difficulty outside
\* easy, medium, hard, or a page range with start > end, start < 1 or end < 1
\* is answered with HTTP 400 at the boundary, having read no book, probed no
\* cache, made no generation call and inserted nothing (SeqSpec).
C16_MalformedRejected ==
    \A r \in Reqs : (pc[r] # "idle" /\ Malformed(req[r])) =>
        /\ pc[r] = "done"
        /\ resp[r].status = 400
        /\ loc[r] = NoLocals

\* nothing but whitespace
WhitespaceOnly(text) == \A i \in 1..Len(text) : text[i] \in {" ", "\n", "\t"}

\* the text the miss path selects for request r (lines 168-177)
SelectedText(r) ==
    IF req[r].pageRange # <<>>
    THEN extractTextFromPages(loc[r].book, req[r].pageRange[1].start,
                              req[r].pageRange[1].end).text
    ELSE Join(PageTexts(loc[r].book.pages), BlankLine)

\* request r got its book, its range is within the book, and the text selected
\* for it is empty or whitespace only
SelectsNoContent(r) ==
    /\ pc[r] # "idle"
    /\ loc[r].book # NoBook
    /\ ~EndsPastBook(r)
    /\ WhitespaceOnly(SelectedText(r))

NoContentError == ErrorResponse(400, "No text content available for quiz generation")

\* C17: a request whose selected text is empty or whitespace only ends with
\* the NoContent error (HTTP 400), and on that path no generation call is made
\* and no quiz record is inserted (SeqSpec).
C17_NoContent ==
    \A r \in Reqs : SelectsNoContent(r) =>
        /\ pc[r] \in {"findCachedQuiz", "done"}
        /\ loc[r].genCalls = 0
        /\ ~loc[r].inserted
        /\ pc[r] = "done" => resp[r] = NoContentError

\* C17 happens: a request for a book of blank pages has been answered
C17_Witness ==
    \E r \in Reqs :
        /\ SelectsNoContent(r)
        /\ req[r].pageRange # <<>>
        /\ pc[r] = "done"
        /\ resp[r].status = 400

\* generation succeeded for request r with at least one question and the store
\* answered the insert
GeneratedAndStoreUp(r) ==
    /\ loc[r].questions # <<>>
    /\ loc[r].inserted \/ loc[r].saveError = "DuplicateKey"

\* C18: when the find or the usage-increment save inside the cache lookup
\* throws, the request goes on as a miss through content selection and
\* generation, and whenever generation succeeds it ends with a successful quiz
\* response (SeqSpec).
C18_LookupFailureIsMiss ==
    \A r \in Reqs : loc[r].lookupError =>
        /\ pc[r] \in {"generateQuiz", "saveQuizToCache", "done"}
        /\ (pc[r] = "done" /\ GeneratedAndStoreUp(r)) =>
            (resp[r].status = 200 /\ resp[r].success)

\* the ids of the records of a collection
Ids(collection) == {q.id : q \in collection}

\* C19: a response from the cache is sent straight from the cache check: the
\* request has made no generation call, selected and truncated no content and
\* inserted no record, and the step leaves the store with the same records
\* (SeqSpec).
C19_HitFrame ==
    [][\A r \in Reqs : (resp'[r].fromCache /\ ~resp[r].fromCache) =>
            /\ pc[r] = "incrementUsage"
            /\ pc'[r] = "done"
            /\ loc'[r].genCalls = 0
            /\ loc'[r].text = <<>>
            /\ ~loc'[r].wasTruncated
            /\ ~loc'[r].inserted
            /\ Ids(quizzes') = Ids(quizzes)
            /\ Cardinality(quizzes') = Cardinality(quizzes)]_vars

\* C19 happens: a request has been answered from the cache
C19_Witness ==
    \E r \in Reqs :
        /\ pc[r] = "done"
        /\ resp[r].fromCache
        /\ resp[r].status = 200
        /\ loc[r].cachedQuiz # <<>>
        /\ loc[r].genCalls = 0

\* C20: a stored quiz record is never removed and changes only in usageCount,
\* which never decreases and is always at least 1: questions, cacheKey,
\* bookId, pageRange, difficulty, numberOfQuestions and title stay as created
\* (HitSpec).
C20_RecordImmutable ==
    [][\A q \in quizzes :
            /\ q.usageCount >= 1
            /\ \E q2 \in quizzes' :
                /\ q2.id = q.id
                /\ [q2 EXCEPT !.usageCount = q.usageCount] = q
                /\ q2.usageCount >= q.usageCount]_vars

\* C21: every record saveQuizToCache creates has usageCount 1, generatedBy
\* 'gemini' and numberOfQuestions equal to the number of questions the model
\* returned, whatever count was requested; the response of the miss path reports
\* fromCache false and usageCount 1 (SeqSpec).
C21_MissRecord ==
    [][\A r \in Reqs : (pc[r] = "saveQuizToCache" /\ loc'[r].inserted) =>
            /\ Cardinality(quizzes' \ quizzes) = 1
            /\ \A q \in quizzes' \ quizzes :
                /\ q.usageCount = 1
                /\ q.generatedBy = "gemini"
                /\ q.questions = loc[r].questions
                /\ q.numberOfQuestions = Len(loc[r].questions)
                /\ resp'[r].quizId = q.id
            /\ resp'[r].status = 200
            /\ ~resp'[r].fromCache
            /\ resp'[r].usageCount = 1]_vars

\* C21 happens: a record was inserted for a request that asked for more
\* questions than the model returned
C21_Witness ==
    \E r \in Reqs :
        /\ pc[r] = "done"
        /\ loc[r].inserted
        /\ Len(loc[r].questions) < loc[r].numQuestions
        /\ \E q \in quizzes : q.id = resp[r].quizId /\ q.numberOfQuestions = Len(q.questions)

\* the message of the last attempt, which failed: the rejection of the text it
\* returned, or the error the call threw
IsLastAttemptMessage(message) ==
    IF lastText # <<>> THEN message = parseQuizResponse(lastText[1]).message
    ELSE message \in ClientErrors

\* C22: when every model and attempt is exhausted the request ends with HTTP
\* 500, the error generateQuiz threw carries the message of the last failed
\* attempt, and the quiz store is as it was: no record inserted, no usageCount
\* changed (AttemptSpec).
C22_ExhaustionSurfaces ==
    \A r \in Reqs : (pc[r] = "done" /\ AllModelsFailed) =>
        /\ Len(calls) = TotalCalls
        /\ resp[r].status = 500
        /\ ~resp[r].success
        /\ IsLastAttemptMessage(genOutcome.last)
        /\ Includes(ThrownMessage(genOutcome), genOutcome.last)
        /\ ~loc[r].inserted
        /\ quizzes = {StoredQuiz}

\* C22 happens: all nine calls failed, the last by a rejected response, and the
\* request was answered
C22_Witness ==
    \E r \in Reqs :
        /\ pc[r] = "done"
        /\ AllModelsFailed
        /\ Len(calls) = 9
        /\ lastText # <<>>
        /\ lastError # "fetch failed"
        /\ resp[r].status = 500

\* C23: every accepted request eventually reaches a response, even when a
\* generation call never returns, because each attempt is bounded by a timeout
\* that counts as an attempt failure (AttemptLiveSpec).
C23_EventuallyResponds ==
    \A r \in {1} : (pc[r] = "generateQuiz") ~> (pc[r] = "done")

\* the range {start: 1, end: totalPages} of a book
WholeBook(book) == [start |-> 1, end |-> book.totalPages]

\* request r got its book and carries no pageRange
AsksWholeBook(r) ==
    /\ pc[r] # "idle"
    /\ loc[r].book # NoBook
    /\ req[r].pageRange = <<>>

\* request r got a book of more than one page and asks for pages 1-1
AsksFirstPage(r) ==
    /\ pc[r] # "idle"
    /\ loc[r].book # NoBook
    /\ loc[r].book.totalPages > 1
    /\ req[r].pageRange = Range(1, 1)

\* C24: generateCacheKey gives an absent pageRange the key of {1, 1}, but the
\* handler replaces an absent range by {1, totalPages} before lookup and
\* insert: a whole-book request probes, hits and stores only the {1,
\* totalPages} entry, which it shares with an explicit {1, totalPages} request,
\* and for a book of more than one page it never meets the entry of pages 1-1
\* (SeqSpec).
C24_AbsentRange ==
    /\ \A b \in Books, n \in {MinQuestions, DefaultQuestions, MaxQuestions},
          d \in validDifficulties :
        generateCacheKey(b._id, <<>>, n, d) = generateCacheKey(b._id, Range(1, 1), n, d)
    /\ \A r \in Reqs : AsksWholeBook(r) =>
        /\ loc[r].actualPageRange = <<WholeBook(loc[r].book)>>
        /\ loc[r].cacheKey # <<>> =>
                loc[r].cacheKey = generateCacheKey(loc[r].book._id, <<WholeBook(loc[r].book)>>,
                                                   loc[r].numQuestions, loc[r].quizDifficulty)
        /\ loc[r].cachedQuiz # <<>> => loc[r].cachedQuiz[1].pageRange = WholeBook(loc[r].book)
        /\ (pc[r] = "done" /\ resp[r].success) =>
                \E q \in quizzes : q.id = resp[r].quizId /\ q.pageRange = WholeBook(loc[r].book)
    /\ \A r \in Reqs : AsksFirstPage(r) =>
        /\ loc[r].cachedQuiz # <<>> => loc[r].cachedQuiz[1].pageRange = [start |-> 1, end |-> 1]
        /\ (pc[r] = "done" /\ resp[r].success) =>
                \E q \in quizzes : q.id = resp[r].quizId
                                    /\ q.pageRange = [start |-> 1, end |-> 1]

\* C24 happens: a whole-book request was served the quiz an explicit request
\* for pages 1-2 stored, while a quiz of pages 1-1 with the same count and
\* difficulty is in the store
C24_Witness ==
    \E r \in Reqs :
        /\ AsksWholeBook(r)
        /\ pc[r] = "done"
        /\ resp[r].fromCache
        /\ loc[r].cachedQuiz[1].title = QuizTitle(loc[r].book, Range(1, 2))
        /\ \E q \in quizzes :
            /\ q.bookId = loc[r].book._id
            /\ q.pageRange = [start |-> 1, end |-> 1]
            /\ q.numberOfQuestions = loc[r].numQuestions
            /\ q.difficulty = loc[r].quizDifficulty

(***************************************************************************)
(* C25: getCacheStats.                                                     *)
(***************************************************************************)
\* the book's records, in the order of their ids
RecordsOf(bookId) == {q \in quizzes : q.bookId = bookId}

\* the sum of usageCount over the book's records, record by record
RECURSIVE UsageUpTo(_, _)
UsageUpTo(bookId, n) ==
    IF n = 0 THEN 0
    ELSE UsageUpTo(bookId, n - 1)
         + (IF \E q \in RecordsOf(bookId) : q.id = n
            THEN (CHOOSE q \in RecordsOf(bookId) : q.id = n).usageCount
            ELSE 0)

UsageOf(bookId) == UsageUpTo(bookId, Cardinality(quizzes))

DistinctKeysOf(bookId) == Cardinality({q.cacheKey : q \in RecordsOf(bookId)})

\* C25: getCacheStats(bookId) returns the zeroed aggregate when the book has
\* no quizzes; otherwise totalQuizzes is the number of the book's records,
\* uniqueConfigurations the number of distinct cache keys among them, and
\* tokensSaved is 1500 times the cache hits, the sum of usageCount minus
\* uniqueConfigurations, which is at least 0 in every reachable store state.
C25_CacheStats ==
    /\ [](\A bookId \in StatsBookIds : UsageOf(bookId) - DistinctKeysOf(bookId) >= 0)
    /\ [][\A bookId \in StatsBookIds : GetCacheStats(bookId) =>
            LET result == stats'[1].result
            IN /\ stats'[1].bookId = bookId
               /\ RecordsOf(bookId) = {} =>
                    result = [totalQuizzes |-> 0, uniqueConfigurations |-> 0,
                              cacheHitRate |-> 0, tokensSaved |-> 0,
                              topConfigurations |-> <<>>]
               /\ RecordsOf(bookId) # {} =>
                    /\ result.totalQuizzes = Cardinality(RecordsOf(bookId))
                    /\ result.uniqueConfigurations = DistinctKeysOf(bookId)
                    /\ result.tokensSaved =
                            1500 * (UsageOf(bookId) - DistinctKeysOf(bookId))
                    /\ result.tokensSaved >= 0]_vars

\* C25 happens: getCacheStats was called for a book with two records, one of
\* them served once from the cache, and for a book with none
C25_Witness ==
    /\ stats # <<>>
    /\ stats[1].bookId = BookA._id
    /\ stats[1].result.totalQuizzes = 2
    /\ stats[1].result.uniqueConfigurations = 2
    /\ stats[1].result.tokensSaved = 1500
    /\ Cardinality(RecordsOf(BookA._id)) = 2
    /\ UsageOf(BookA._id) = 3

(***************************************************************************)
(* C26: the waits of generateWithRetry.                                    *)
(***************************************************************************)
\* the calls that have failed: all of them, but the last when it was accepted
FailedCalls == IF gpc = "returned" THEN Len(calls) - 1 ELSE Len(calls)

\* the waits that n failed calls leave behind: k x 1000 ms after the k-th
\* attempt on a model, none after the last attempt on it
RECURSIVE WaitsAfter(_)
WaitsAfter(n) ==
    IF n = 0 THEN <<>>
    ELSE WaitsAfter(n - 1)
         \o (IF calls[n][2] < 3 THEN <<calls[n][2] * 1000>> ELSE <<>>)

\* C26: within the attempts on one model, after the k-th failed attempt
\* (k < maxRetries) generation waits k x 1000 ms before attempt k+1; no wait
\* follows the last attempt of a model, so no delay separates the last
\* attempt on one model from the first attempt on the next, and no wait
\* precedes the final generation-failed error.
C26_Backoff ==
    /\ [](waits = WaitsAfter(FailedCalls))
    /\ [](gpc = "wait" => attempt < 3 /\ waits[Len(waits)] = attempt * 1000)
    /\ [][gpc' = "call" /\ attempt' > 1 /\ attempt' # attempt =>
            /\ gpc = "wait"
            /\ attempt' = attempt + 1
            /\ modelIdx' = modelIdx]_vars
    /\ [][modelIdx' # modelIdx =>
            /\ gpc = "call"
            /\ attempt = 3
            /\ gpc' = "call"
            /\ attempt' = 1
            /\ waits' = waits]_vars
    /\ [][gpc' = "threw" /\ calls' # <<>> =>
            /\ gpc = "call"
            /\ waits' = waits]_vars

\* C26 happens: every attempt on every model failed, and generation threw
\* after six waits
C26_Witness ==
    /\ gpc = "threw"
    /\ Len(calls) = 9
    /\ waits = <<1000, 2000, 1000, 2000, 1000, 2000>>

(***************************************************************************)
(* C27: connectDB.                                                         *)
(***************************************************************************)
InFlight == {p \in 1..Len(promises) : promises[p].state = "pending"}

Awaiting == {c \in Callers : cpc[c] = "awaiting"}

\* C27: connectDB reuses one connection: once a connect has succeeded every
\* later call returns the cached connection without invoking
\* mongoose.connect; while a connect is in flight concurrent callers await
\* the same promise so at most one connect is in flight; and after a failed
\* connect the cached promise is cleared so that a later call starts a new
\* connect attempt rather than returning the old failure.
C27_OneConnection ==
    /\ [](Cardinality(InFlight) <= 1)
    /\ [](\A p \in InFlight :
            /\ cached.promise = p
            /\ \A c \in Awaiting : \E i \in 1..Len(promises[p].reactions) :
                    promises[p].reactions[i] = c)
    /\ [](jobs = <<>> /\ cached.promise # 0 =>
            promises[cached.promise].state # "rejected")
    /\ [][cached.conn => cached'.conn /\ promises' = promises]_vars
    /\ [][\A c \in Callers : (ConnectDB(c) /\ cached.conn) =>
            cpc'[c] = "returned"]_vars
    /\ [][\A c \in Callers :
            (/\ ConnectDB(c)
             /\ ~cached.conn
             /\ InFlight = {}
             /\ \E p \in 1..Len(promises) : promises[p].state = "rejected") =>
                /\ Len(promises') = Len(promises) + 1
                /\ cached'.promise = Len(promises')
                /\ promises'[Len(promises')].state = "pending"
                /\ cpc'[c] = "awaiting"]_vars

\* C27 happens: the first connect failed under two callers, a later call
\* started the second connect, it succeeded, and a call after that was
\* answered from the cache
C27_Witness ==
    /\ Len(promises) = 2
    /\ promises[1].state = "rejected"
    /\ promises[2].state = "fulfilled"
    /\ cached.conn
    /\ \E c, d \in Callers : c # d /\ cpc[c] = "threw" /\ cpc[d] = "threw"
    /\ \E c \in Callers : cpc[c] = "returned"

(***************************************************************************)
(* C28: the key of a persisted quiz and its stored fields.                 *)
(***************************************************************************)
KeyOfStoredFields(q) ==
    generateCacheKey(q.bookId, <<q.pageRange>>, q.numberOfQuestions, q.difficulty)

\* C28: in every reachable store state, every persisted quiz's cacheKey
\* equals generateCacheKey applied to that record's own stored bookId,
\* pageRange, numberOfQuestions and difficulty; hence any quiz served from
\* the cache has exactly the bookId, effective page range, question count and
\* difficulty of the request that hit it.
C28_KeyOfStoredFields ==
    /\ \A q \in quizzes : q.cacheKey = KeyOfStoredFields(q)
    /\ \A r \in Reqs : loc[r].cachedQuiz # <<>> =>
        /\ loc[r].cachedQuiz[1].bookId = req[r].bookId[1]
        /\ loc[r].cachedQuiz[1].pageRange = CastRange(loc[r].actualPageRange[1])
        /\ loc[r].cachedQuiz[1].numberOfQuestions = loc[r].numQuestions
        /\ loc[r].cachedQuiz[1].difficulty = loc[r].quizDifficulty

(***************************************************************************)
(* C29: the insert of the miss path when requests do not overlap.          *)
(***************************************************************************)
\* C29: when requests are handled one after another, an insert on the miss
\* path never fails on the unique cacheKey constraint: whenever a request
\* misses the cache and generation succeeds, the key under which its result
\* is inserted is not already present in the store.
C29_InsertKeyFresh ==
    \A r \in Reqs :
        (CleanMiss(r) /\ loc[r].questions # <<>>) => loc[r].saveError # "DuplicateKey"

(***************************************************************************)
(* C30: what generation accepts as a success.                              *)
(***************************************************************************)
\* C30: every generation result accepted as a success contains at least one
\* question, so a successful generation can always be persisted (the stored
\* numberOfQuestions is >= 1) and a response with an empty questions array is
\* treated as an attempt failure that triggers retry/fallback rather than as
\* a success.
C30_AcceptedHasQuestions ==
    gpc = "returned" => Len(genOutcome.questions) >= 1

====
